---- MODULE Spec2Model ----
(***************************************************************************)
(* A model of rustymap's Anvil reading stack: the region index loader      *)
(* (region.rs), the chunk frame decompressor (chunk.rs), the NBT tag       *)
(* parser (tag.rs) and the palette grid unpackers (chunk.rs).              *)
(*                                                                         *)
(* Each layer has a specification of its own (SpecRegion, SpecChunk,       *)
(* SpecNbt, SpecGrid) over the shared variables; the variables of the      *)
(* other layers stay idle.                                                 *)
(***************************************************************************)
EXTENDS Integers, Sequences, FiniteSets, TLC

VARIABLES
    \* ---- region.rs: the region file and the Region being loaded
    location,        \* location table: slot -> <<o1, o2, o3, sector count>>
    timestamps,      \* timestamp table: slot -> 4 bytes
    sector_data,     \* chunk sectors of the file: sector index -> frame
    region_headers,  \* Region.region_headers: slot -> RegionHeader
    rpc,             \* position inside load_chunks
    visited,         \* slots the final loop has handed to Chunk::new
    chunks,          \* Region.chunks, as the sequence of slot indices pushed
    \* ---- chunk.rs: Chunk::decompress
    frame,           \* the bytes handed to Chunk::decompress
    cpc,             \* stage of the chunk
    raw_bytes,       \* the slice taken at chunk.rs:102
    decoder_input,   \* what GzDecoder / ZlibDecoder was given (or NoBytes)
    decompressed,    \* the value Chunk::decompress returned
    \* ---- tag.rs: Tag::new on one buffer
    tag_bytes,       \* ProtoTag.bytes
    src,             \* the tag tree the buffer was serialized from
    well_formed,     \* the buffer is the whole serialization of src
    build,           \* the build: overflow checks, endianness of the target
    npc,             \* ready, parsed, panicked, exited
    cur,             \* ProtoTag.cur
    tag,             \* the Tag that Tag::new returned
    \* ---- chunk.rs: the section projectors and the grid unpackers
    g_op,            \* which of the four functions was called
    g_bits,          \* its bits_per_entry argument (the data functions)
    g_longs,         \* its long_ints argument (the data functions)
    g_tags,          \* its tags argument (process_block_states, process_biomes)
    g_status,        \* how the call ended: ok, panic, or the exit code
    g_palette,       \* number of palette entries loaded
    g_data,          \* the grid it returned
    \* ---- region.rs: the block coordinates of a region and of its chunks
    region_x,        \* Region.region_x, from the file name
    region_z,        \* Region.region_z
    origin_x,        \* Region.x
    origin_z,        \* Region.z
    slot,            \* the key r of the final loop of load_chunks
    chunk_xz,        \* the x and z computed for the chunk of that slot
    kpc,             \* position: named, built, placed
    \* ---- world.rs: World::load_regions
    region_dir,      \* <world>/region: absent, unreadable, or listed
    region_files,    \* the entries read_dir gave, in its order
    loading_count,   \* entries handled so far
    regions,         \* World.regions: the entries a Region was pushed for
    wpc,             \* position inside load_regions
    \* ---- chunk.rs: Chunk::process_chunk on the children of a chunk root
    p_subtags,       \* nbt.tags.subtags, in file order
    p_chunk,         \* the fields of the Chunk being projected
    p_missing,       \* the names process_chunk pushed to missing
    p_status,        \* ready, then how the call ended: ok or the exit code
    \* ---- world.rs, region.rs: the path of a directory entry and the region named by it
    n_dir,           \* the world path given to World::new, as characters
    n_name,          \* the file name of the directory entry, as characters
    n_xz,            \* region_x and region_z that Region::new parsed
    n_status,        \* listed, then skipped, built or panicked
    \* ---- chunk.rs: LightProcessor::process_lights on one byte array
    l_bytes,         \* the byte_array argument
    l_out,           \* the array it returned
    l_status,        \* ready, then ok or panic
    \* ---- args.rs: ArgParse::load
    a_arguments,     \* env::args(), the program name first
    a_config_file,   \* Args.config_file
    a_status,        \* ready, then ok or panic
    \* ---- config.rs: Config::new on one configuration file
    c_file,          \* the parsed file: its textures table, if any, and its renders
    c_textures,      \* Config.textures
    c_render_list,   \* render_list, as parse_renders filled it
    c_renders,       \* Config.renders, validated
    c_status,        \* ready, parsed, then validated or panicked
    \* ---- world.rs: Versioning::newer_version on two version names
    v_ver_1,         \* ver_1, as characters
    v_ver_2,         \* ver_2, as characters
    v_newer,         \* the version returned
    v_status,        \* ready, then returned
    \* ---- region.rs, chunk.rs: the stages of load_chunks and Chunk::new on one region file
    s_file,          \* the file: its length and what its slots hold, in the loop's order
    s_header,        \* how much of the header load_chunks read: unread, full or partial
    s_index,         \* the slot (of s_file.slots) being handled
    s_stage,         \* stage of that slot's chunk: none, framed, decompressed, parsed, projected
    s_log,           \* the stages entered so far, as <<slot, stage>>
    s_pc             \* open, loading, done, panicked, exited

regionVars == <<location, timestamps, sector_data, region_headers, rpc, visited, chunks>>
chunkVars == <<frame, cpc, raw_bytes, decoder_input, decompressed>>
nbtVars == <<tag_bytes, src, well_formed, build, npc, cur, tag>>
gridVars == <<g_op, g_bits, g_longs, g_tags, g_status, g_palette, g_data>>
coordVars == <<region_x, region_z, origin_x, origin_z, slot, chunk_xz, kpc>>
worldVars == <<region_dir, region_files, loading_count, regions, wpc>>
projectVars == <<p_subtags, p_chunk, p_missing, p_status>>
nameVars == <<n_dir, n_name, n_xz, n_status>>
lightVars == <<l_bytes, l_out, l_status>>
argsVars == <<a_arguments, a_config_file, a_status>>
configVars == <<c_file, c_textures, c_render_list, c_renders, c_status>>
versionVars == <<v_ver_1, v_ver_2, v_newer, v_status>>
pipelineVars == <<s_file, s_header, s_index, s_stage, s_log, s_pc>>
vars == <<regionVars, chunkVars, nbtVars, gridVars, coordVars, worldVars, projectVars, nameVars, lightVars, argsVars, configVars, versionVars, pipelineVars>>

\* the variables each layer leaves alone
exceptRegion == <<chunkVars, nbtVars, gridVars, coordVars, worldVars, projectVars, nameVars, lightVars, argsVars, configVars, versionVars, pipelineVars>>
exceptChunk == <<regionVars, nbtVars, gridVars, coordVars, worldVars, projectVars, nameVars, lightVars, argsVars, configVars, versionVars, pipelineVars>>
exceptNbt == <<regionVars, chunkVars, gridVars, coordVars, worldVars, projectVars, nameVars, lightVars, argsVars, configVars, versionVars, pipelineVars>>
exceptGrid == <<regionVars, chunkVars, nbtVars, coordVars, worldVars, projectVars, nameVars, lightVars, argsVars, configVars, versionVars, pipelineVars>>
exceptCoord == <<regionVars, chunkVars, nbtVars, gridVars, worldVars, projectVars, nameVars, lightVars, argsVars, configVars, versionVars, pipelineVars>>
exceptWorld == <<regionVars, chunkVars, nbtVars, gridVars, coordVars, projectVars, nameVars, lightVars, argsVars, configVars, versionVars, pipelineVars>>
exceptProject == <<regionVars, chunkVars, nbtVars, gridVars, coordVars, worldVars, nameVars, lightVars, argsVars, configVars, versionVars, pipelineVars>>
exceptName == <<regionVars, chunkVars, nbtVars, gridVars, coordVars, worldVars, projectVars, lightVars, argsVars, configVars, versionVars, pipelineVars>>
exceptLight == <<regionVars, chunkVars, nbtVars, gridVars, coordVars, worldVars, projectVars, nameVars, argsVars, configVars, versionVars, pipelineVars>>
exceptArgs == <<regionVars, chunkVars, nbtVars, gridVars, coordVars, worldVars, projectVars, nameVars, lightVars, configVars, versionVars, pipelineVars>>
exceptConfig == <<regionVars, chunkVars, nbtVars, gridVars, coordVars, worldVars, projectVars, nameVars, lightVars, argsVars, versionVars, pipelineVars>>
exceptVersion == <<regionVars, chunkVars, nbtVars, gridVars, coordVars, worldVars, projectVars, nameVars, lightVars, argsVars, configVars, pipelineVars>>
exceptPipeline == <<regionVars, chunkVars, nbtVars, gridVars, coordVars, worldVars, projectVars, nameVars, lightVars, argsVars, configVars, versionVars>>

(***************************************************************************)
(* Bounds of the model.                                                    *)
(***************************************************************************)
\* slots of the location table that the model carries (the file has 1024)
NSlots == 3
\* sectors of the modelled region file, the two header sectors included
MaxFileSectors == 4
\* longest frame body (bytes after the compression byte) of SpecChunk
MaxBody == 4
\* longs a packed array may hold beyond those its grid needs
MaxExtraLongs == 1
\* region coordinates run over -MaxRegion .. MaxRegion
MaxRegion == 2
\* most entries in <world>/region
MaxRegionFiles == 3

Slots == 0 .. (NSlots - 1)

\* a value no byte sequence equals
NoBytes == <<-1>>

(***************************************************************************)
(* Big-endian integers.                                                    *)
(***************************************************************************)
\* u32::from_be_bytes([a, b, c, d]); the inputs keep a < 128
u32_from_be_bytes(a, b, c, d) == ((a * 256 + b) * 256 + c) * 256 + d

(***************************************************************************)
(* region.rs                                                               *)
(***************************************************************************)
SECTOR_BYTES == 4096

\* region.rs:97: u32::from_be_bytes(slice) * 4096 is a product of two u32; it
\* passes 2^32 when the sector offset is 2^20 or more
OffsetOverflows(loc) == u32_from_be_bytes(0, loc[1], loc[2], loc[3]) >= 2 ^ 20

\* region.rs:90-111: one RegionHeader per slot, absent slots included.  The
\* byte offset is a multiple of 4096 that can pass 2^31; it is carried as
\* offset_sectors = offset / 4096.  A product that passes 2^32 is kept modulo
\* 2^32 by a build without overflow checks.
HeaderOf(loc, ts) ==
    LET sectors == u32_from_be_bytes(0, 0, 0, loc[4])
    IN  [ offset_sectors |-> u32_from_be_bytes(0, loc[1], loc[2], loc[3]) % (2 ^ 20),
          updated |-> u32_from_be_bytes(ts[1], ts[2], ts[3], ts[4]),
          sectors |-> sectors,
          size    |-> sectors * SECTOR_BYTES ]

\* The frames a chunk sector of the modelled file may start with: the four
\* length bytes, the compression byte, and whether the payload decodes.
FrameKinds ==
    { [len4 |-> <<0, 0, 0, 5>>,  compression |-> 2, payload_ok |-> TRUE],
      [len4 |-> <<0, 0, 0, 5>>,  compression |-> 2, payload_ok |-> FALSE],
      [len4 |-> <<0, 0, 16, 0>>, compression |-> 2, payload_ok |-> TRUE],
      [len4 |-> <<0, 0, 0, 5>>,  compression |-> 3, payload_ok |-> TRUE] }

ZeroFrame == [len4 |-> <<0, 0, 0, 0>>, compression |-> 0, payload_ok |-> TRUE]

ChunkSectors == 2 .. (MaxFileSectors - 1)

\* The first five bytes of sector s of the file, and whether what follows
\* decodes.  Sector 0 starts with the location table, sector 1 with the
\* timestamp table; a sector past the end of the file gives nothing.
SectorHead(s) ==
    IF s = 0 THEN [len4 |-> location[0], compression |-> location[1][1], payload_ok |-> FALSE]
    ELSE IF s = 1 THEN [len4 |-> timestamps[0], compression |-> timestamps[1][1], payload_ok |-> FALSE]
    ELSE IF s \in ChunkSectors THEN sector_data[s]
    ELSE ZeroFrame

\* region.rs:130-133: seek to the slot's offset and read_exact `size` bytes into
\* a zeroed buffer; the result of the read is dropped, so a read that runs past
\* the end of the file keeps what was there and leaves zeroes after it.  The
\* buffer is carried as its length and its first five bytes.
ReadChunkBuffer(header) ==
    LET fr == SectorHead(header.offset_sectors)
    IN  [ len  |-> header.size,
          len4 |-> fr.len4,
          compression |-> fr.compression,
          payload_ok  |-> fr.payload_ok ]

\* chunk.rs:95-102 on a buffer of `len` bytes: bytes[0..4] and bytes[4] are
\* indexed and bytes[5..5 + size] is sliced, each of which panics out of range
DecompressInRange(len, size) == len >= 5 /\ 5 + size <= len

\* chunk.rs:65-91 seen from the region loader: what Chunk::new does with a buffer
ChunkNewOutcome(buf) ==
    LET size == u32_from_be_bytes(buf.len4[1], buf.len4[2], buf.len4[3], buf.len4[4])
    IN  IF ~DecompressInRange(buf.len, size) THEN "panic"
        ELSE IF buf.compression \in {1, 2} /\ ~buf.payload_ok THEN "exit"
        ELSE "chunk"

LocationEntries ==
    { <<0, 0, 0, 0>>,     \* absent
      <<0, 0, 2, 1>>,     \* sector 2, one sector
      <<0, 0, 3, 1>>,     \* sector 3, one sector
      <<0, 0, 0, 1>>,     \* offset 0 with a sector count
      <<0, 0, 2, 0>>,     \* an offset with sector count 0
      <<16, 0, 2, 1>>,    \* sector 2^20 + 2, one sector
      <<0, 0, 3, 2>>,     \* sector 3, two sectors
      <<0, 0, 9, 1>> }    \* sector 9, one sector

TimestampTables ==
    { [i \in Slots |-> <<0, 0, 0, 0>>], [i \in Slots |-> <<127, 255, 1, i>>] }

SectorFiles ==
    { [s \in ChunkSectors |-> k] : k \in FrameKinds }
      \cup { [s \in ChunkSectors |-> IF s % 2 = 0 THEN k1 ELSE k2] :
                k1 \in FrameKinds, k2 \in FrameKinds }

RegionIdle ==
    /\ location = <<>>
    /\ timestamps = <<>>
    /\ sector_data = <<>>
    /\ region_headers = <<>>
    /\ rpc = "idle"
    /\ visited = {}
    /\ chunks = <<>>

\* region.rs:65-80: Region::new, up to the call of load_chunks
RegionInit ==
    /\ location \in [Slots -> LocationEntries]
    /\ timestamps \in TimestampTables
    /\ sector_data \in SectorFiles
    /\ region_headers = <<>>
    /\ rpc = "open"
    /\ visited = {}
    /\ chunks = <<>>

\* region.rs:84-126: read the two tables, fill region_headers for every slot;
\* the second loop reads each non-empty slot and drops what it read
\* An overflowing product panics the build that checks overflow, at the first
\* slot that has one.
LoadHeaders ==
    /\ rpc = "open"
    /\ \E overflow_checks \in BOOLEAN :
         LET bad == {i \in Slots : overflow_checks /\ OffsetOverflows(location[i])}
         IN  /\ region_headers' =
                    [i \in {j \in Slots : \A b \in bad : j < b} |->
                        HeaderOf(location[i], timestamps[i])]
             /\ rpc' = IF bad = {} THEN "loading" ELSE "panicked"
    /\ UNCHANGED <<location, timestamps, sector_data, visited, chunks>>

\* region.rs:129-138: one iteration of the final loop.  region_headers is a
\* HashMap, so the next slot is any slot not yet visited.  No slot is skipped.
LoadChunk(r) ==
    /\ rpc = "loading"
    /\ r \in Slots \ visited
    /\ LET outcome == ChunkNewOutcome(ReadChunkBuffer(region_headers[r]))
       IN  /\ visited' = visited \cup {r}
           /\ chunks' = IF outcome = "chunk" THEN Append(chunks, r) ELSE chunks
           /\ rpc' = CASE outcome = "panic" -> "panicked"
                       [] outcome = "exit"  -> "exited"
                       [] OTHER -> "loading"
    /\ UNCHANGED <<location, timestamps, sector_data, region_headers>>

\* region.rs:140: the loop is over, load_chunks returns
FinishLoad ==
    /\ rpc = "loading"
    /\ visited = Slots
    /\ rpc' = "done"
    /\ UNCHANGED <<location, timestamps, sector_data, region_headers, visited, chunks>>

(***************************************************************************)
(* chunk.rs: Chunk::decompress                                             *)
(***************************************************************************)
ChunkIdle ==
    /\ frame = <<>>
    /\ cpc = "idle"
    /\ raw_bytes = NoBytes
    /\ decoder_input = NoBytes
    /\ decompressed = NoBytes

\* bytes[a..b] of Rust (0-based, b exclusive) as a sequence
Slice(bytes, a, b) == SubSeq(bytes, a + 1, b)

\* what flate2's decoders may answer: the decoded bytes, or an error
DecoderResults ==
    { [ok |-> TRUE, out |-> <<10, 0, 0, 0>>], [ok |-> TRUE, out |-> <<>>], [ok |-> FALSE, out |-> <<>>] }

\* chunk.rs:93-129
decompress(bytes, dec) ==
    IF Len(bytes) < 5
    THEN [outcome |-> "panic", raw_bytes |-> NoBytes, decoder_input |-> NoBytes, ret |-> NoBytes]
    ELSE
    LET size == u32_from_be_bytes(bytes[1], bytes[2], bytes[3], bytes[4])
        compression_type == bytes[5]
    IN  IF ~DecompressInRange(Len(bytes), size)
        THEN [outcome |-> "panic", raw_bytes |-> NoBytes, decoder_input |-> NoBytes, ret |-> NoBytes]
        ELSE LET raw == Slice(bytes, 5, 5 + size)
             IN  IF compression_type \in {1, 2}
                 THEN IF dec.ok
                      THEN [outcome |-> "ok", raw_bytes |-> raw, decoder_input |-> raw, ret |-> dec.out]
                      ELSE [outcome |-> "exit", raw_bytes |-> raw, decoder_input |-> raw, ret |-> NoBytes]
                 ELSE [outcome |-> "ok", raw_bytes |-> raw, decoder_input |-> NoBytes, ret |-> bytes]

BodyTemplates == { <<10, 0, 0, 0, 9, 9>>, <<120, 156, 3, 0, 7, 7>> }

\* frames: a length field, a compression byte, then a body of up to MaxBody
\* bytes, which is payload followed by padding
Frames ==
    { <<0, 0, 0, n, c>> \o SubSeq(t, 1, m) :
        n \in 0 .. (MaxBody + 1), c \in 0 .. 4, m \in 0 .. MaxBody, t \in BodyTemplates }
      \cup { <<>>, <<0, 0, 0>>, <<0, 0, 0, 1>> }

ChunkInit ==
    /\ frame \in Frames
    /\ cpc = "framed"
    /\ raw_bytes = NoBytes
    /\ decoder_input = NoBytes
    /\ decompressed = NoBytes

\* chunk.rs:84: let raw_bytes = Chunk::decompress(bytes)
Decompress ==
    /\ cpc = "framed"
    /\ \E dec \in DecoderResults :
         LET r == decompress(frame, dec)
         IN  /\ cpc' = CASE r.outcome = "panic" -> "panicked"
                         [] r.outcome = "exit" -> "exited"
                         [] OTHER -> "decompressed"
             /\ raw_bytes' = r.raw_bytes
             /\ decoder_input' = r.decoder_input
             /\ decompressed' = r.ret
    /\ UNCHANGED frame

(***************************************************************************)
(* tag.rs: the NBT parser                                                  *)
(***************************************************************************)
Min(a, b) == IF a <= b THEN a ELSE b

\* i8 / i16 / i32 / u16 from big-endian bytes
i8_from_be_bytes(a) == IF a >= 128 THEN a - 256 ELSE a
i16_from_be_bytes(a, b) == i8_from_be_bytes(a) * 256 + b
i32_from_be_bytes(a, b, c, d) == ((i8_from_be_bytes(a) * 256 + b) * 256 + c) * 256 + d
u16_from_be_bytes(a, b) == a * 256 + b

\* tag.rs:18-34, 211-229
TagTypes ==
    << "End", "Byte", "Short", "Int", "Long", "Float", "Double", "ByteArray",
       "String", "List", "Compound", "IntArray", "LongArray" >>
tag_from_id(id) == IF id <= 12 THEN TagTypes[id + 1] ELSE "Invalid"

\* String::from_utf8 succeeds.  The buffers of the model hold ASCII bytes and
\* 255, which no UTF-8 text contains.
ValidUtf8(bs) == \A i \in 1 .. Len(bs) : bs[i] < 128

\* results of the parser's methods: how the call ended (ok, panic, exit), the
\* cursor it left, and the value it returned
Ok(c, v) == [status |-> "ok", cur |-> c, val |-> v]
Bad(st, c) == [status |-> st, cur |-> c, val |-> <<>>]

\* tag.rs:155-187: read_bytes and move_cur(num, false).  cx holds the buffer
\* and the build's settings.  A usize of 2^64 + n with n < 0 (a negative i32
\* cast by `as usize`, or a cursor that wrapped) is carried as n.  With such
\* a num, start + num passes 2^64 when c + num >= 0: the sum panics with
\* overflow checks and wraps below start without, where the slice panics;
\* when c + num < 0 nothing overflows and the slice runs to the buffer's end.
read_bytes(cx, c, num) ==
    IF num = 0 THEN Ok(c, <<>>)
    ELSE IF c < 0 THEN Bad("panic", c)
    ELSE IF num < 0
    THEN IF c + num >= 0 \/ c > Len(cx.bytes)
         THEN Bad("panic", c)
         ELSE Ok(c + num, Slice(cx.bytes, c, Len(cx.bytes)))
    ELSE LET end == Min(c + num, Len(cx.bytes))
         IN  IF c > end THEN Bad("panic", c)
             ELSE Ok(c + num, Slice(cx.bytes, c, end))

\* `r` when the call it reports failed (the panic or exit ends the parse),
\* and otherwise what follows it
Then(r, Rest(_)) == IF r.status # "ok" THEN r ELSE Rest(r)

\* read_bytes(n).try_into().unwrap(): a slice of another length panics
read_exact_bytes(cx, c, n) ==
    Then(read_bytes(cx, c, n),
         LAMBDA r : IF Len(r.val) # n THEN Bad("panic", r.cur) ELSE r)

\* tag.rs:189-208
read_type(cx, c) ==
    Then(read_bytes(cx, c, 1),
         LAMBDA r : IF Len(r.val) = 0 THEN Bad("panic", r.cur)
                    ELSE Ok(r.cur, tag_from_id(r.val[1])))

\* tag.rs:231-253
read_utf8(cx, c, len) ==
    IF len = 0 THEN Ok(c, <<>>)
    ELSE Then(read_bytes(cx, c, len),
              LAMBDA r : IF ValidUtf8(r.val) THEN r ELSE Bad("exit", r.cur))

\* tag.rs:274-282
read_name(cx, c) ==
    Then(read_exact_bytes(cx, c, 2),
         LAMBDA r : read_utf8(cx, r.cur, u16_from_be_bytes(r.val[1], r.val[2])))

\* i16::from_ne_bytes([a, b]) on the build's target
i16_from_ne_bytes(cx, a, b) ==
    IF cx.little_endian THEN i16_from_be_bytes(b, a) ELSE i16_from_be_bytes(a, b)

Reverse(s) == [i \in 1 .. Len(s) |-> s[Len(s) + 1 - i]]

\* i64::from_ne_bytes(chunk) on the build's target; an i64 is carried as its
\* eight bytes, most significant first
i64_from_ne_bytes(cx, chunk) == IF cx.little_endian THEN Reverse(chunk) ELSE chunk

\* payload_size * 4 or * 8 in usize: with n < 0 (2^64 + n) the product passes
\* 2^64, which panics with overflow checks and wraps without
MulOverflows(cx, n) == n < 0 /\ cx.overflow_checks

\* i32::from_be_bytes(read_bytes(4).try_into().unwrap())
read_i32(cx, c) ==
    Then(read_exact_bytes(cx, c, 4),
         LAMBDA r : Ok(r.cur, i32_from_be_bytes(r.val[1], r.val[2], r.val[3], r.val[4])))

Payload(t, v) == [t |-> t, v |-> v]
MkTag(name, payload) == [name |-> name, payload |-> payload]

\* the value of a call as a payload of type t
AsPayload(t, r) == Then(r, LAMBDA x : Ok(x.cur, Payload(t, x.val)))

RECURSIVE read_payload(_, _, _), read_list(_, _, _, _, _), read_compound(_, _, _), parse(_, _, _)

\* tag.rs:284-474
read_payload(cx, c, tag_type) ==
    CASE tag_type = "End" -> Ok(c, Payload("End", <<>>))
      [] tag_type = "Byte" ->
            Then(read_exact_bytes(cx, c, 1),
                 LAMBDA r : Ok(r.cur, Payload("Byte", i8_from_be_bytes(r.val[1]))))
      [] tag_type = "Short" ->
            Then(read_exact_bytes(cx, c, 2),
                 LAMBDA r : Ok(r.cur, Payload("Short", i16_from_be_bytes(r.val[1], r.val[2]))))
      [] tag_type = "Int" -> AsPayload("Int", read_i32(cx, c))
      \* an i64, f32 or f64 is carried as its bytes, most significant first
      [] tag_type = "Long" -> AsPayload("Long", read_exact_bytes(cx, c, 8))
      [] tag_type = "Float" -> AsPayload("Float", read_exact_bytes(cx, c, 4))
      [] tag_type = "Double" -> AsPayload("Double", read_exact_bytes(cx, c, 8))
      [] tag_type = "ByteArray" ->
            Then(read_i32(cx, c),
                 LAMBDA n : AsPayload("ByteArray", read_bytes(cx, n.cur, n.val)))
      [] tag_type = "String" ->
            Then(read_exact_bytes(cx, c, 2),
                 LAMBDA n : AsPayload("String",
                                read_utf8(cx, n.cur, u16_from_be_bytes(n.val[1], n.val[2]))))
      [] tag_type = "List" ->
            Then(read_bytes(cx, c, 1),
                 LAMBDA id :
                    IF Len(id.val) = 0 THEN Bad("panic", id.cur)
                    ELSE Then(read_i32(cx, id.cur),
                              LAMBDA n : read_list(cx, n.cur, tag_from_id(id.val[1]), n.val, <<>>)))
      [] tag_type = "Compound" -> read_compound(cx, c, <<>>)
      [] tag_type = "IntArray" ->
            Then(read_i32(cx, c),
                 LAMBDA n :
                    IF MulOverflows(cx, n.val) THEN Bad("panic", n.cur)
                    ELSE Then(read_bytes(cx, n.cur, n.val * 4),
                              \* chunks_exact(2): one i16 per two bytes
                              LAMBDA r : Ok(r.cur, Payload("IntArray",
                                            [k \in 1 .. (Len(r.val) \div 2) |->
                                                i16_from_ne_bytes(cx, r.val[2 * k - 1], r.val[2 * k])]))))
      [] tag_type = "LongArray" ->
            Then(read_i32(cx, c),
                 LAMBDA n :
                    IF MulOverflows(cx, n.val) THEN Bad("panic", n.cur)
                    ELSE Then(read_bytes(cx, n.cur, n.val * 8),
                              \* chunks_exact(8): one i64 per eight bytes
                              LAMBDA r : Ok(r.cur, Payload("LongArray",
                                            [k \in 1 .. (Len(r.val) \div 8) |->
                                                i64_from_ne_bytes(cx, SubSeq(r.val, 8 * k - 7, 8 * k))]))))
      [] OTHER -> Bad("exit", c)

\* tag.rs:375-382: `for _ in 0..subtag_count`, with `left` elements to go
read_list(cx, c, subtag_type, left, value) ==
    IF left <= 0 THEN Ok(c, Payload("List", value))
    ELSE Then(read_payload(cx, c, subtag_type),
              LAMBDA r : read_list(cx, r.cur, subtag_type, left - 1, Append(value, r.val)))

\* tag.rs:385-441: the loop of the Compound arm, with the children read so far
read_compound(cx, c, tags) ==
    Then(read_type(cx, c),
         LAMBDA t :
            IF t.val = "End"
            THEN Ok(t.cur, Payload("Compound", Append(tags, MkTag(<<>>, Payload("End", <<>>)))))
            ELSE Then(read_name(cx, t.cur),
                      LAMBDA nm :
                         IF t.val = "Compound"
                         THEN \* a new ProtoTag at the cursor, parsed from its type byte on
                              Then(parse(cx, nm.cur, nm.val),
                                   LAMBDA sub : read_compound(cx, sub.cur,
                                        Append(tags, MkTag(sub.val.name, sub.val.payload))))
                         ELSE Then(read_payload(cx, nm.cur, t.val),
                                   LAMBDA r : read_compound(cx, r.cur,
                                        Append(tags, MkTag(nm.val, r.val))))))

\* tag.rs:140-153: ProtoTag::parse on a ProtoTag whose name is `name`
parse(cx, c, name) ==
    Then(read_type(cx, c),
         LAMBDA t :
            IF t.val = "End"
            THEN Ok(t.cur, [tag_type |-> "End", name |-> name, payload |-> Payload("End", <<>>)])
            ELSE Then(read_name(cx, t.cur),
                      LAMBDA nm :
                         Then(read_payload(cx, nm.cur, t.val),
                              LAMBDA r : Ok(r.cur, [tag_type |-> t.val, name |-> nm.val,
                                                    payload |-> r.val]))))

\* tag.rs:82-92, 126-138: Tag::new(bytes), through ProtoTag::new
TagNew(cx) == parse(cx, 0, <<>>)

(***************************************************************************)
(* Buffers for the parser: serialized tag trees, whole and cut short.      *)
(* A leaf of a tree is [id, name, raw] with raw its payload bytes; a       *)
(* Compound is [id, name, kids].                                           *)
(***************************************************************************)
Leaf(id, name, raw) == [id |-> id, name |-> name, raw |-> raw, kids |-> <<>>]
Comp(name, kids) == [id |-> 10, name |-> name, raw |-> <<>>, kids |-> kids]

RECURSIVE Serialize(_), SerializeAll(_)
Serialize(t) ==
    <<t.id, Len(t.name) \div 256, Len(t.name) % 256>> \o t.name
        \o (IF t.id = 10 THEN SerializeAll(t.kids) \o <<0>> ELSE t.raw)
SerializeAll(ts) == IF ts = <<>> THEN <<>> ELSE Serialize(Head(ts)) \o SerializeAll(Tail(ts))

\* payloads of the twelve types that are not Compound, as in NBT::test (nbt.rs:19-80)
LeafKinds ==
    { <<1, <<1>>>>,
      <<2, <<1, 2>>>>,
      <<3, <<1, 2, 3, 4>>>>,
      <<4, <<1, 2, 3, 4, 5, 6, 7, 8>>>>,
      <<5, <<1, 2, 3, 4>>>>,
      <<6, <<1, 2, 3, 4, 5, 6, 7, 8>>>>,
      <<7, <<0, 0, 0, 4, 1, 2, 3, 4>>>>,
      <<8, <<0, 3, 102, 111, 111>>>>,
      <<9, <<1, 0, 0, 0, 2, 7, 8>>>>,
      <<9, <<0, 0, 0, 0, 0>>>>,
      <<9, <<10, 0, 0, 0, 1, 1, 0, 1, 120, 5, 0>>>>,
      <<11, <<0, 0, 0, 1, 1, 1, 1, 1>>>>,
      <<12, <<0, 0, 0, 1, 1, 2, 3, 4, 5, 6, 7, 8>>>> }

Leaves == { Leaf(k[1], <<97>>, k[2]) : k \in LeafKinds }
SmallLeaves == { Leaf(1, <<98>>, <<5>>), Leaf(8, <<115>>, <<0, 1, 120>>) }

\* Compounds of leaves, and a Compound around one of them
InnerCompounds ==
    { Comp(<<99>>, <<>>) } \cup { Comp(<<99>>, <<l>>) : l \in SmallLeaves }
      \cup { Comp(<<99>>, <<l1, l2>>) : l1 \in SmallLeaves, l2 \in SmallLeaves }
DeepCompounds == { Comp(<<100>>, <<c>>) : c \in InnerCompounds }

Children == Leaves \cup InnerCompounds \cup DeepCompounds

\* the Compound of NBT::test, holding one child of every type but Compound
TestCompound ==
    Comp(<<84>>,
         << Leaf(1, <<97>>, <<1>>), Leaf(2, <<97>>, <<1, 2>>), Leaf(3, <<97>>, <<1, 2, 3, 4>>),
            Leaf(4, <<97>>, <<1, 2, 3, 4, 5, 6, 7, 8>>), Leaf(5, <<97>>, <<1, 2, 3, 4>>),
            Leaf(6, <<97>>, <<1, 2, 3, 4, 5, 6, 7, 8>>),
            Leaf(7, <<97>>, <<0, 0, 0, 4, 1, 2, 3, 4>>), Leaf(8, <<97>>, <<0, 3, 102, 111, 111>>),
            Leaf(11, <<97>>, <<0, 0, 0, 1, 1, 1, 1, 1>>),
            Leaf(12, <<97>>, <<0, 0, 0, 1, 1, 2, 3, 4, 5, 6, 7, 8>>),
            Leaf(9, <<97>>, <<1, 0, 0, 0, 2, 7, 8>>) >>)

\* trees whose serialization is also cut short at every length
CutTrees ==
    Leaves \cup { Comp(<<>>, <<>>) } \cup { Comp(<<>>, <<k>>) : k \in Children }

\* IntArray and LongArray tags of no element and of two, one of them negative
ArrayLeaves ==
    { Leaf(11, <<97>>, <<0, 0, 0, 0>>),
      Leaf(11, <<97>>, <<0, 0, 0, 2, 0, 0, 1, 2, 255, 255, 255, 254>>),
      Leaf(12, <<97>>, <<0, 0, 0, 0>>),
      Leaf(12, <<97>>, <<0, 0, 0, 2, 0, 0, 0, 0, 0, 0, 1, 2,
                         255, 255, 255, 255, 255, 255, 255, 254>>) }

Trees ==
    Leaves \cup CutTrees \cup { TestCompound } \cup ArrayLeaves
      \cup { Comp(<<>>, <<k1, k2>>) : k1 \in Children, k2 \in Children }

\* lengths below zero, as the four bytes of the i32
MinusOne == <<255, 255, 255, 255>>
MinusHundred == <<255, 255, 255, 156>>

\* a ByteArray, List, IntArray or LongArray that declares a negative length,
\* with nothing or two bytes after the length
NegativeLeaves ==
    { Leaf(id, <<97>>, n \o rest) :
         id \in {7, 11, 12}, n \in {MinusOne, MinusHundred}, rest \in {<<>>, <<1, 2>>} }
    \cup { Leaf(9, <<97>>, <<1>> \o n \o rest) :
             n \in {MinusOne, MinusHundred}, rest \in {<<>>, <<1, 2>>} }

\* such a tag as the root, and as the child of a root Compound
NegativeTrees == NegativeLeaves \cup { Comp(<<>>, <<k>>) : k \in NegativeLeaves }

\* type ids read_type and tag_from_id have no tag type for
InvalidIds == {13, 200}

\* a tag of such a type, and a List of one or two elements of such a type
InvalidLeaves ==
    { Leaf(id, <<97>>, rest) : id \in InvalidIds, rest \in {<<>>, <<1, 2>>} }
    \cup { Leaf(9, <<97>>, <<id, 0, 0, 0, n>> \o rest) :
             id \in InvalidIds, n \in {1, 2}, rest \in {<<>>, <<1, 2>>} }

\* such a tag as the root, and as the child of a root Compound
InvalidTypeTrees == InvalidLeaves \cup { Comp(<<>>, <<k>>) : k \in InvalidLeaves }

Builds == [overflow_checks : BOOLEAN, little_endian : BOOLEAN]

\* ProtoTag::new (tag.rs:128-135) leaves an Invalid payload until parse fills it
NoTag == MkTag(<<>>, Payload("Invalid", <<>>))

NbtIdle ==
    /\ tag_bytes = <<>>
    /\ src = Leaf(0, <<>>, <<>>)
    /\ well_formed = FALSE
    /\ build = [overflow_checks |-> FALSE, little_endian |-> FALSE]
    /\ npc = "idle"
    /\ cur = 0
    /\ tag = NoTag

NbtInit ==
    /\ build \in Builds
    /\ \/ /\ src \in Trees
          /\ tag_bytes = Serialize(src)
          /\ well_formed = TRUE
       \/ /\ src \in CutTrees
          /\ \E k \in 0 .. (Len(Serialize(src)) - 1) : tag_bytes = SubSeq(Serialize(src), 1, k)
          /\ well_formed = FALSE
       \/ /\ src \in NegativeTrees \cup InvalidTypeTrees
          /\ tag_bytes = Serialize(src)
          /\ well_formed = FALSE
    /\ npc = "ready"
    /\ cur = 0
    /\ tag = NoTag

\* tag.rs:82-92: Tag::new(bytes)
ParseTag ==
    /\ npc = "ready"
    /\ LET r == TagNew([bytes |-> tag_bytes, overflow_checks |-> build.overflow_checks,
                        little_endian |-> build.little_endian])
       IN  /\ npc' = CASE r.status = "ok" -> "parsed"
                       [] r.status = "panic" -> "panicked"
                       [] OTHER -> "exited"
           /\ cur' = r.cur
           /\ tag' = IF r.status = "ok" THEN MkTag(r.val.name, r.val.payload) ELSE NoTag
    /\ UNCHANGED <<tag_bytes, src, well_formed, build>>

(***************************************************************************)
(* chunk.rs: palette grids.  An i64 is carried as its eight bytes, most    *)
(* significant first.  A Tag is the record chunk.rs reads: name, tagtype,  *)
(* subtags and payload.                                                    *)
(***************************************************************************)
BLOCK_CELLS == 4096
BIOME_CELLS == 64
\* the bound of the push loops, chunk.rs:399 and chunk.rs:521
BLOCK_PUSH_LIMIT == 4096
BIOME_PUSH_LIMIT == 4096

GOk(data) == [status |-> "ok", data |-> data]
GBad(st) == [status |-> st, data |-> <<>>]

\* format!("{long_int:064b}"): the 64 bits of the two's complement, the most
\* significant first
raw_bits(long_int) ==
    [i \in 1 .. 64 |-> (long_int[((i - 1) \div 8) + 1] \div (2 ^ (7 - ((i - 1) % 8)))) % 2]

\* i16::from_str_radix(entry, 2), before the range check of i16
RECURSIVE from_str_radix(_)
from_str_radix(entry) ==
    IF entry = <<>> THEN 0
    ELSE 2 * from_str_radix(SubSeq(entry, 1, Len(entry) - 1)) + entry[Len(entry)]

\* chunk.rs:381-385 (503-507): trimmed_bits.as_bytes().chunks(bits_per_entry)
BitChunks(trimmed_bits, bits_per_entry) ==
    [c \in 1 .. ((Len(trimmed_bits) + bits_per_entry - 1) \div bits_per_entry) |->
        SubSeq(trimmed_bits, (c - 1) * bits_per_entry + 1,
               Min(c * bits_per_entry, Len(trimmed_bits)))]

\* the entry list left in the order of the bit string, high bits first
keep_entry_order(entry_list) == entry_list

\* chunk.rs:395 (517): entry_list.reverse()
reverse_entries(entry_list) == Reverse(entry_list)

\* chunk.rs:373 (495)
left_trim_of(bits_per_entry) == 64 % bits_per_entry

\* chunk.rs:377-395 (499-517): the entry_list of one long
entry_list_of(bits_per_entry, left_trim, long_int) ==
    LET trimmed_bits == SubSeq(raw_bits(long_int), left_trim + 1, 64)
        entries == SelectSeq(BitChunks(trimmed_bits, bits_per_entry),
                             LAMBDA entry : Len(entry) = bits_per_entry)
    IN reverse_entries([k \in 1 .. Len(entries) |-> from_str_radix(entries[k])])

\* chunk.rs:376-396 (498-518): the entries of the longs lo..hi in the order the
\* loop over long_ints meets them; the range is halved to keep the recursion
\* shallow
RECURSIVE entries_of_longs(_, _, _, _)
entries_of_longs(bits_per_entry, long_ints, lo, hi) ==
    IF lo > hi THEN <<>>
    ELSE IF lo = hi
    THEN entry_list_of(bits_per_entry, left_trim_of(bits_per_entry), long_ints[lo]) \o <<>>
    ELSE entries_of_longs(bits_per_entry, long_ints, lo, (lo + hi) \div 2)
         \o entries_of_longs(bits_per_entry, long_ints, ((lo + hi) \div 2) + 1, hi)

\* chunk.rs:397-402 (519-524): an entry is pushed only while indecies is
\* shorter than the limit
push_entries(all_entries, limit) ==
    SubSeq(all_entries, 1, Min(Len(all_entries), limit))

\* chunk.rs:376-403 (498-525): indecies after the loop over long_ints
unpack_longs(bits_per_entry, long_ints, limit) ==
    push_entries(entries_of_longs(bits_per_entry, long_ints, 1, Len(long_ints)), limit)

\* i16::from_str_radix(..).unwrap() panics on a value past i16::MAX
EntryOverflows(bits_per_entry, long_ints) ==
    \E j \in 1 .. Len(long_ints) :
        \E k \in 1 .. (64 \div bits_per_entry) :
            entry_list_of(bits_per_entry, left_trim_of(bits_per_entry), long_ints[j])[k] > 32767

\* the two data functions differ in the limit of the push loop and in the
\* length they accept
unpack_grid(bits_per_entry, long_ints, limit, cells) ==
    IF bits_per_entry = 0 THEN GBad("panic")          \* 64 % 0
    ELSE IF bits_per_entry >= 16 /\ EntryOverflows(bits_per_entry, long_ints) THEN GBad("panic")
    ELSE LET indecies == unpack_longs(bits_per_entry, long_ints, limit)
         IN IF Len(indecies) = cells THEN GOk(indecies) ELSE GBad("exit(556)")

\* chunk.rs:371-416
process_block_data(bits_per_entry, long_ints) ==
    unpack_grid(bits_per_entry, long_ints, BLOCK_PUSH_LIMIT, BLOCK_CELLS)

\* chunk.rs:493-538
process_biome_data(bits_per_entry, long_ints) ==
    unpack_grid(bits_per_entry, long_ints, BIOME_PUSH_LIMIT, BIOME_CELLS)

(***************************************************************************)
(* chunk.rs: the block_states and biomes projectors.  The fields and the   *)
(* accessors of Tag that chunk.rs uses are not in tag.rs; a Tag is taken   *)
(* as the record of the four fields chunk.rs reads.                        *)
(***************************************************************************)
GTag(name, tagtype, subtags, payload) ==
    [name |-> name, tagtype |-> tagtype, subtags |-> subtags, payload |-> payload]

\* the payload of a Tag, with the readings chunk.rs takes of it; the two
\* the section projectors take are the arguments, the others start empty
GPayload(string, long_array) ==
    [ string |-> string, long_array |-> long_array,
      int |-> 0, long |-> <<0, 0, 0, 0, 0, 0, 0, 0>>, byte |-> 0, byte_array |-> <<>> ]

payload_long_array(t) == t.payload.long_array
payload_string(t) == t.payload.string
payload_int(t) == t.payload.int
payload_long(t) == t.payload.long
payload_byte(t) == t.payload.byte
payload_byte_array(t) == t.payload.byte_array

\* (n as f64).log2().ceil() as usize: the cast saturates -inf to 0
CeilLog2(n) ==
    IF n <= 1 THEN 0
    ELSE CHOOSE b \in 1 .. 31 : 2 ^ b >= n /\ 2 ^ (b - 1) < n

Max(a, b) == IF a >= b THEN a ELSE b

\* properties.insert(name, value) on the HashMap
insert(map, k, v) == [x \in (DOMAIN map) \cup {k} |-> IF x = k THEN v ELSE map[x]]

\* chunk.rs:347-356: the loop over the subtags of a Properties tag
RECURSIVE read_properties(_, _, _)
read_properties(props, i, map) ==
    IF i > Len(props) THEN map
    ELSE read_properties(props, i + 1,
            IF props[i].tagtype = "End" THEN map
            ELSE insert(map, props[i].name, payload_string(props[i])))

\* chunk.rs:340-361: the loop over the subtags of a palette entry
RECURSIVE read_block_state(_, _, _)
read_block_state(subtags, i, bs) ==
    IF i > Len(subtags) THEN bs
    ELSE read_block_state(subtags, i + 1,
            CASE subtags[i].name = "Name" ->
                    [bs EXCEPT !.name = payload_string(subtags[i])]
              [] subtags[i].name = "Properties" ->
                    [bs EXCEPT !.properties = read_properties(subtags[i].subtags, 1, @)]
              [] OTHER ->
                    IF subtags[i].tagtype # "End"
                    THEN [bs EXCEPT !.missing = Append(@, subtags[i].name)]
                    ELSE bs)

\* chunk.rs:332-369
process_block_state(t) ==
    read_block_state(t.subtags, 1,
        [name |-> "", properties |-> [x \in {} |-> ""], missing |-> <<>>])

\* chunk.rs:271-288 and 434-452: the first loop over the children
PaletteSubtags(tags) ==
    LET RECURSIVE cat(_)
        cat(i) == IF i > Len(tags) THEN <<>>
                  ELSE (IF tags[i].name = "palette" THEN tags[i].subtags ELSE <<>>) \o cat(i + 1)
    IN cat(1)

MissingFields(tags) ==
    LET others == SelectSeq(tags, LAMBDA t : t.name \notin {"palette", "data"}
                                              /\ t.tagtype # "End")
    IN [i \in 1 .. Len(others) |-> others[i].name]

\* a grid that starts out with no index in it
UnsetBlockData == [i \in 1 .. BLOCK_CELLS |-> -1]

\* chunk.rs:265-268
InitialBlockData == [i \in 1 .. BLOCK_CELLS |-> 0]
\* chunk.rs:434-437
InitialBiomeData == [i \in 1 .. BIOME_CELLS |-> 0]

\* chunk.rs:291-321: the second loop over the children, from the i-th on
RECURSIVE block_data_loop(_, _, _, _, _)
block_data_loop(tags, i, palette_len, missing, data) ==
    IF i > Len(tags)
    THEN IF 0 < Len(missing) THEN GBad("exit(535)") ELSE GOk(data)
    ELSE CASE tags[i].name = "palette" ->
                block_data_loop(tags, i + 1, palette_len, missing, data)
           [] tags[i].name = "data" ->
                Then(process_block_data(Max(4, CeilLog2(palette_len)),
                                        payload_long_array(tags[i])),
                     LAMBDA r : block_data_loop(tags, i + 1, palette_len, missing, r.data))
           [] OTHER ->
                IF (\A m \in 1 .. Len(missing) : missing[m] # tags[i].name)
                   /\ tags[i].tagtype # "End"
                THEN GBad("exit(320)")
                ELSE block_data_loop(tags, i + 1, palette_len, missing, data)

\* chunk.rs:262-330
process_block_states(tags) ==
    LET palette == [e \in 1 .. Len(PaletteSubtags(tags)) |->
                        process_block_state(PaletteSubtags(tags)[e])]
    IN IF \E e \in 1 .. Len(palette) : 0 < Len(palette[e].missing)
       THEN GBad("exit(535)")
       ELSE block_data_loop(tags, 1, Len(palette), MissingFields(tags), InitialBlockData)

\* chunk.rs:472: biome_data[i] as u8
as_u8(v) == v % 256

\* chunk.rs:455-483: the second loop over the children, from the i-th on
RECURSIVE biome_data_loop(_, _, _, _, _)
biome_data_loop(tags, i, palette_len, missing, data) ==
    IF i > Len(tags)
    THEN IF 0 < Len(missing) THEN GBad("exit(42069)") ELSE GOk(data)
    ELSE CASE tags[i].name = "palette" ->
                biome_data_loop(tags, i + 1, palette_len, missing, data)
           [] tags[i].name = "data" ->
                Then(process_biome_data(CeilLog2(palette_len),
                                        payload_long_array(tags[i])),
                     LAMBDA r : biome_data_loop(tags, i + 1, palette_len, missing,
                                    [c \in 1 .. BIOME_CELLS |-> as_u8(r.data[c])]))
           [] OTHER ->
                IF (\A m \in 1 .. Len(missing) : missing[m] # tags[i].name)
                   /\ tags[i].tagtype # "End"
                THEN GBad("exit(422)")
                ELSE biome_data_loop(tags, i + 1, palette_len, missing, data)

\* chunk.rs:431-491
process_biomes(tags) ==
    biome_data_loop(tags, 1, Len(PaletteSubtags(tags)), MissingFields(tags),
                    InitialBiomeData)

(***************************************************************************)
(* Inputs of the grid functions and their calls                            *)
(***************************************************************************)
ZeroLong == <<0, 0, 0, 0, 0, 0, 0, 0>>
\* -1
OnesLong == <<255, 255, 255, 255, 255, 255, 255, 255>>
\* 0xFEDCBA9876543210, negative
MixedNegLong == <<254, 220, 186, 152, 118, 84, 50, 16>>
\* 0x0123456789ABCDEF, positive
MixedPosLong == <<1, 35, 69, 103, 137, 171, 205, 239>>

LongPatterns == {ZeroLong, OnesLong, MixedNegLong, MixedPosLong}
BlockPatternPairs == {<<MixedNegLong, MixedPosLong>>, <<OnesLong, ZeroLong>>,
                      <<ZeroLong, ZeroLong>>}

\* a long array of l longs that alternates the two longs of a pair
LongArray(pair, l) == [j \in 1 .. l |-> pair[((j - 1) % 2) + 1]]

\* the fewest longs that hold `cells` entries of `b` bits
MinLongs(b, cells) == (cells + (64 \div b) - 1) \div (64 \div b)

LongCounts(b, cells) ==
    IF b = 0 THEN 0 .. MaxExtraLongs
    ELSE Max(0, MinLongs(b, cells) - 1) .. (MinLongs(b, cells) + MaxExtraLongs)

BlockBits == 4 .. 12
BiomeBits == 0 .. 7

NoPayload == GPayload("", <<>>)
EndTag == GTag("", "End", <<>>, NoPayload)
StringTag(name, str) == GTag(name, "String", <<>>, GPayload(str, <<>>))
DataTag(longs) == GTag("data", "LongArray", <<>>, GPayload("", longs))
UnknownTag == GTag("extra", "Int", <<>>, NoPayload)
PaletteTag(entries) == GTag("palette", "List", entries, NoPayload)

BlockName(i) == IF i = 1 THEN "minecraft:air" ELSE "minecraft:stone"
BiomeName(i) == IF i = 1 THEN "minecraft:plains" ELSE "minecraft:river"

PropertiesTag ==
    GTag("Properties", "Compound", <<StringTag("axis", "y"), EndTag>>, NoPayload)

\* a palette entry of a block_states compound: odd = whether it carries
\* a field the projector does not know
BlockPaletteEntry(i, odd) ==
    GTag("", "Compound",
         <<StringTag("Name", BlockName(i))>>
            \o (IF i = 2 THEN <<PropertiesTag>> ELSE <<>>)
            \o (IF odd THEN <<UnknownTag>> ELSE <<>>)
            \o <<EndTag>>,
         NoPayload)

BlockPaletteSizes == {0, 1, 2, 16, 17}
BiomePaletteSizes == {0, 1, 2, 3, 5, 8}

\* the children of a compound: palette first or data first, an optional
\* unknown child, and the closing End
Compounds(palette, datas) ==
    {<<palette>> \o extra \o <<EndTag>> : extra \in {<<>>, <<UnknownTag>>}}
    \cup {<<palette, d>> \o extra \o <<EndTag>> : d \in datas, extra \in {<<>>, <<UnknownTag>>}}
    \cup {<<d, palette, EndTag>> : d \in datas}

BlockStatesInputs ==
    UNION {Compounds(PaletteTag([i \in 1 .. n |-> BlockPaletteEntry(i, odd /\ i = n)]),
                     {DataTag(LongArray(pair, l)) :
                         pair \in BlockPatternPairs,
                         l \in LongCounts(Max(4, CeilLog2(n)), BLOCK_CELLS)})
           : n \in BlockPaletteSizes, odd \in BOOLEAN}

BiomesInputs ==
    UNION {Compounds(PaletteTag([i \in 1 .. n |-> StringTag("", BiomeName(i))]),
                     {DataTag(LongArray(pair, l)) :
                         pair \in LongPatterns \X LongPatterns,
                         l \in LongCounts(CeilLog2(n), BIOME_CELLS)})
           : n \in BiomePaletteSizes}

GridIdle ==
    /\ g_op = "idle"
    /\ g_bits = 0
    /\ g_longs = <<>>
    /\ g_tags = <<>>
    /\ g_status = "idle"
    /\ g_palette = 0
    /\ g_data = <<>>

GridInit ==
    /\ g_op = "ready"
    /\ g_bits = 0
    /\ g_longs = <<>>
    /\ g_tags = <<>>
    /\ g_status = "ready"
    /\ g_palette = 0
    /\ g_data = <<>>

\* a call of process_block_data
ProcessBlockData ==
    /\ g_op = "ready"
    /\ \E b \in BlockBits : \E pair \in BlockPatternPairs :
         \E l \in LongCounts(b, BLOCK_CELLS) :
            /\ g_bits' = b
            /\ g_longs' = LongArray(pair, l)
            /\ LET r == process_block_data(b, LongArray(pair, l))
               IN /\ g_status' = r.status
                  /\ g_data' = r.data
    /\ g_op' = "block_data"
    /\ UNCHANGED <<g_tags, g_palette>>

\* a call of process_biome_data
ProcessBiomeData ==
    /\ g_op = "ready"
    /\ \E b \in BiomeBits : \E pair \in LongPatterns \X LongPatterns :
         \E l \in LongCounts(b, BIOME_CELLS) :
            /\ g_bits' = b
            /\ g_longs' = LongArray(pair, l)
            /\ LET r == process_biome_data(b, LongArray(pair, l))
               IN /\ g_status' = r.status
                  /\ g_data' = r.data
    /\ g_op' = "biome_data"
    /\ UNCHANGED <<g_tags, g_palette>>

\* a call of process_block_states
ProcessBlockStates ==
    /\ g_op = "ready"
    /\ \E tags \in BlockStatesInputs :
            /\ g_tags' = tags
            /\ g_palette' = Len(PaletteSubtags(tags))
            /\ LET r == process_block_states(tags)
               IN /\ g_status' = r.status
                  /\ g_data' = r.data
    /\ g_op' = "block_states"
    /\ UNCHANGED <<g_bits, g_longs>>

\* a call of process_biomes
ProcessBiomes ==
    /\ g_op = "ready"
    /\ \E tags \in BiomesInputs :
            /\ g_tags' = tags
            /\ g_palette' = Len(PaletteSubtags(tags))
            /\ LET r == process_biomes(tags)
               IN /\ g_status' = r.status
                  /\ g_data' = r.data
    /\ g_op' = "biomes"
    /\ UNCHANGED <<g_bits, g_longs>>

(***************************************************************************)
(* region.rs: block coordinates of a region and of the chunks in it        *)
(***************************************************************************)
REGION_BLOCKS == 512
REGION_WIDTH == 32
CHUNK_BLOCKS == 16

\* region.rs:90: the keys of region_headers, (0..4096).step_by(4) / 4
AllSlots == 0 .. ((SECTOR_BYTES \div 4) - 1)

RegionCoords == (0 - MaxRegion) .. MaxRegion

\* region.rs:73, 75: x: region_x * 512
region_origin(region_c) == region_c * REGION_BLOCKS

\* the column taken with the divisor of the row
chunk_x_by_row(self_x, r) == self_x + ((r \div REGION_WIDTH) * CHUNK_BLOCKS)

\* region.rs:134: self.x + (r % 32 * 16)
chunk_x(self_x, r) == self_x + ((r % REGION_WIDTH) * CHUNK_BLOCKS)

\* region.rs:135: self.z + (r / 32 * 16)
chunk_z(self_z, r) == self_z + ((r \div REGION_WIDTH) * CHUNK_BLOCKS)

CoordIdle ==
    /\ region_x = 0
    /\ region_z = 0
    /\ origin_x = 0
    /\ origin_z = 0
    /\ slot = 0
    /\ chunk_xz = <<0, 0>>
    /\ kpc = "idle"

\* region.rs:66-68: region_x and region_z as parsed from the file name
CoordInit ==
    /\ region_x \in RegionCoords
    /\ region_z \in RegionCoords
    /\ origin_x = 0
    /\ origin_z = 0
    /\ slot = 0
    /\ chunk_xz = <<0, 0>>
    /\ kpc = "named"

\* region.rs:69-77: the Region literal of Region::new
BuildRegion ==
    /\ kpc = "named"
    /\ origin_x' = region_origin(region_x)
    /\ origin_z' = region_origin(region_z)
    /\ kpc' = "built"
    /\ UNCHANGED <<region_x, region_z, slot, chunk_xz>>

\* region.rs:129-136: the coordinates of the chunk of slot r
PlaceChunk(r) ==
    /\ kpc = "built"
    /\ slot' = r
    /\ chunk_xz' = <<chunk_x(origin_x, r), chunk_z(origin_z, r)>>
    /\ kpc' = "placed"
    /\ UNCHANGED <<region_x, region_z, origin_x, origin_z>>

(***************************************************************************)
(* world.rs: World::load_regions.  A directory entry is its name's ending  *)
(* (region: .mca or .mcr) and what the file is: good (a whole region file  *)
(* whose chunks all load), empty (shorter than the header: no bytes), or   *)
(* unopenable.                                                             *)
(***************************************************************************)
FileKinds == {"good", "empty", "unopenable"}
DirEntries == [region_name : BOOLEAN, file : FileKinds]

\* region.rs:84-133 on a file of no bytes: both read_exact fail and are
\* dropped, the tables stay zero, and a slot's buffer is vec![0u8; size]
EmptyFileBuffer ==
    [ len  |-> HeaderOf(<<0, 0, 0, 0>>, <<0, 0, 0, 0>>).size,
      len4 |-> ZeroFrame.len4,
      compression |-> ZeroFrame.compression,
      payload_ok  |-> ZeroFrame.payload_ok ]

\* region.rs:65-80: what Region::new does with the file of an entry
RegionNewOutcome(entry) ==
    CASE entry.file = "unopenable" -> "panic"       \* File::open(..).unwrap()
      [] entry.file = "empty" ->
            IF ChunkNewOutcome(EmptyFileBuffer) = "chunk" THEN "region"
            ELSE ChunkNewOutcome(EmptyFileBuffer)
      [] OTHER -> "region"

WorldIdle ==
    /\ region_dir = "idle"
    /\ region_files = <<>>
    /\ loading_count = 0
    /\ regions = <<>>
    /\ wpc = "idle"

EntryLists == UNION {[1 .. n -> DirEntries] : n \in 0 .. MaxRegionFiles}

WorldInit ==
    /\ \/ region_dir \in {"absent", "unreadable"} /\ region_files = <<>>
       \/ region_dir = "listed" /\ region_files \in EntryLists
    /\ loading_count = 0
    /\ regions = <<>>
    /\ wpc = "start"

\* world.rs:46-63: find and list the region directory
ReadDir ==
    /\ wpc = "start"
    /\ wpc' = CASE region_dir = "absent" -> "done"
                [] region_dir = "unreadable" -> "exited"
                [] OTHER -> "walking"
    /\ UNCHANGED <<region_dir, region_files, loading_count, regions>>

\* world.rs:68-80: one iteration of the loop over the entries
LoadRegionFile ==
    /\ wpc = "walking"
    /\ loading_count < Len(region_files)
    /\ loading_count' = loading_count + 1
    /\ LET entry == region_files[loading_count + 1]
           outcome == IF entry.region_name THEN RegionNewOutcome(entry) ELSE "skipped"
       IN  /\ regions' = IF outcome = "region" THEN Append(regions, loading_count + 1)
                         ELSE regions
           /\ wpc' = CASE outcome = "panic" -> "panicked"
                       [] outcome = "exit" -> "exited"
                       [] OTHER -> "walking"
    /\ UNCHANGED <<region_dir, region_files>>

\* world.rs:81-82: the loop is over
FinishWalk ==
    /\ wpc = "walking"
    /\ loading_count = Len(region_files)
    /\ wpc' = "done"
    /\ UNCHANGED <<region_dir, region_files, loading_count, regions>>

(***************************************************************************)
(* chunk.rs: Chunk::process_chunk and the projectors it calls.  A result   *)
(* is how the call ended (ok, panic, or the exit code), the value it       *)
(* returned and the names pushed to missing so far.                        *)
(***************************************************************************)
POk(value, missing) == [status |-> "ok", value |-> value, missing |-> missing]
PBad(st, missing) == [status |-> st, value |-> <<>>, missing |-> missing]

\* chunk.rs:547: [0; 4096]
LIGHT_CELLS == 4096
NoLight == [c \in 1 .. LIGHT_CELLS |-> 0]

\* chunk.rs:545-561: two cells per byte, the high nibble first; the index
\* passes the array when the bytes are more than half its cells
process_lights(byte_array) ==
    IF 2 * Len(byte_array) > LIGHT_CELLS THEN PBad("panic", <<>>)
    ELSE POk([c \in 1 .. LIGHT_CELLS |->
                 IF (c + 1) \div 2 > Len(byte_array) THEN 0
                 ELSE IF c % 2 = 1 THEN (byte_array[(c + 1) \div 2] \div 16) % 16
                 ELSE byte_array[(c + 1) \div 2] % 16], <<>>)

\* chunk.rs:198-204
NewSection ==
    [ y |-> 0, block_states |-> InitialBlockData, biomes |-> InitialBiomeData,
      block_light |-> NoLight, sky_light |-> NoLight ]

\* chunk.rs:206-229: the children of one section compound, from the i-th on
RECURSIVE section_loop(_, _, _, _)
section_loop(tags, i, section, missing) ==
    IF i > Len(tags) THEN POk(section, missing)
    ELSE CASE tags[i].name = "Y" ->
                section_loop(tags, i + 1,
                             [section EXCEPT !.y = payload_byte(tags[i])], missing)
           [] tags[i].name = "block_states" ->
                Then(process_block_states(tags[i].subtags),
                     LAMBDA r : section_loop(tags, i + 1,
                                    [section EXCEPT !.block_states = r.data], missing))
           [] tags[i].name = "biomes" ->
                Then(process_biomes(tags[i].subtags),
                     LAMBDA r : section_loop(tags, i + 1,
                                    [section EXCEPT !.biomes = r.data], missing))
           [] tags[i].name = "BlockLight" ->
                Then(process_lights(payload_byte_array(tags[i])),
                     LAMBDA r : section_loop(tags, i + 1,
                                    [section EXCEPT !.block_light = r.value], missing))
           [] tags[i].name = "SkyLight" ->
                Then(process_lights(payload_byte_array(tags[i])),
                     LAMBDA r : section_loop(tags, i + 1,
                                    [section EXCEPT !.sky_light = r.value], missing))
           [] OTHER ->
                section_loop(tags, i + 1, section,
                             IF tags[i].tagtype # "End"
                             THEN Append(missing, tags[i].name) ELSE missing)

\* chunk.rs:197-232: the loop over the section compounds, from the i-th on
RECURSIVE sections_loop(_, _, _, _)
sections_loop(tags, i, sections, missing) ==
    IF i > Len(tags)
    THEN IF 0 < Len(missing) THEN PBad("exit(42069)", missing) ELSE POk(sections, <<>>)
    ELSE Then(section_loop(tags[i].subtags, 1, NewSection, missing),
              LAMBDA r : sections_loop(tags, i + 1, Append(sections, r.value), r.missing))

\* chunk.rs:192-240
process_sections(tags) == sections_loop(tags, 1, <<>>, <<>>)

\* chunk.rs:610-636: nothing is ever pushed to missing
process_references(reference_tags) == POk(<<>>, <<>>)

\* chunk.rs:691-711: the names process_children lets through
ChildrenFields ==
    { "BB", "BiomeType", "D", "Entrances", "GD", "hps", "hr", "id", "Integrity",
      "isBeached", "IsLarge", "MST", "Num", "O", "Rot", "sc", "Template", "tf",
      "TPX", "TPY", "TPZ" }

\* the children of the tags of a list, one after the other
RECURSIVE SubtagsOf(_)
SubtagsOf(tags) ==
    IF tags = <<>> THEN <<>> ELSE Head(tags).subtags \o SubtagsOf(Tail(tags))

\* chunk.rs:684-725
process_children(children_tags) ==
    IF \E i \in 1 .. Len(SubtagsOf(children_tags)) :
          /\ SubtagsOf(children_tags)[i].name \notin ChildrenFields
          /\ SubtagsOf(children_tags)[i].tagtype # "End"
    THEN PBad("exit(589)", <<>>)
    ELSE POk(<<>>, <<>>)

\* chunk.rs:653-667: the names process_starts has an arm for
StartsFields == {"Children", "ChunkX", "ChunkZ", "id", "references"}

\* chunk.rs:640-682
process_starts(starts_tags) ==
    IF \E i \in 1 .. Len(SubtagsOf(starts_tags)) :
          \/ /\ SubtagsOf(starts_tags)[i].name = "Children"
             /\ process_children(SubtagsOf(starts_tags)[i].subtags).status # "ok"
          \/ /\ SubtagsOf(starts_tags)[i].name \notin StartsFields
             /\ SubtagsOf(starts_tags)[i].tagtype # "End"
    THEN PBad("exit(589)", <<>>)
    ELSE POk(<<>>, <<>>)

\* chunk.rs:578-608: the Vec returned is the empty one it started with
process_structures(structure_tags) ==
    IF \E i \in 1 .. Len(structure_tags) :
          \/ /\ structure_tags[i].name = "References"
             /\ process_references(structure_tags[i].subtags).status # "ok"
          \/ /\ structure_tags[i].name = "starts"
             /\ process_starts(structure_tags[i].subtags).status # "ok"
          \/ /\ structure_tags[i].name \notin {"References", "starts"}
             /\ structure_tags[i].tagtype # "End"
    THEN PBad("exit(589)", <<>>)
    ELSE POk(<<>>, <<>>)

\* chunk.rs:66-82: the fields of the Chunk literal that process_chunk writes
NewChunk ==
    [ data_version |-> 0, x_pos |-> 0, y_pos |-> 0, z_pos |-> 0, status |-> "",
      last_update |-> ZeroLong, inhabited_time |-> ZeroLong,
      sections |-> <<>>, structures |-> <<>> ]

\* chunk.rs:147-173, 175: the names whose arm is empty
IgnoredFields ==
    { "entities", "Heightmaps", "Lights", "isLightOn", "PostProcessing",
      "CarvingMasks", "block_entities", "block_ticks", "fluid_ticks", "" }

\* chunk.rs:135-140, 174: the arms that assign a field from the tag
assign_field(ch, t) ==
    CASE t.name = "DataVersion" -> [ch EXCEPT !.data_version = payload_int(t)]
      [] t.name = "xPos" -> [ch EXCEPT !.x_pos = payload_int(t)]
      [] t.name = "yPos" -> [ch EXCEPT !.y_pos = payload_int(t)]
      [] t.name = "zPos" -> [ch EXCEPT !.z_pos = payload_int(t)]
      [] t.name = "Status" -> [ch EXCEPT !.status = payload_string(t)]
      [] t.name = "LastUpdate" -> [ch EXCEPT !.last_update = payload_long(t)]
      [] t.name = "InhabitedTime" -> [ch EXCEPT !.inhabited_time = payload_long(t)]
      [] OTHER -> ch

AssignedFields ==
    {"DataVersion", "xPos", "yPos", "zPos", "Status", "LastUpdate", "InhabitedTime"}

\* chunk.rs:133-180: the loop over the children of the root, from the i-th on
RECURSIVE chunk_loop(_, _, _, _)
chunk_loop(tags, i, ch, missing) ==
    IF i > Len(tags)
    THEN IF 0 < Len(missing) THEN PBad("exit(42069)", missing) ELSE POk(ch, <<>>)
    ELSE CASE tags[i].name \in AssignedFields ->
                chunk_loop(tags, i + 1, assign_field(ch, tags[i]), missing)
           [] tags[i].name = "sections" ->
                Then(process_sections(tags[i].subtags),
                     LAMBDA r : chunk_loop(tags, i + 1,
                                    [ch EXCEPT !.sections = r.value], missing))
           [] tags[i].name = "structures" ->
                Then(process_structures(tags[i].subtags),
                     LAMBDA r : chunk_loop(tags, i + 1,
                                    [ch EXCEPT !.structures = r.value], missing))
           [] tags[i].name \in IgnoredFields ->
                chunk_loop(tags, i + 1, ch, missing)
           [] OTHER ->
                chunk_loop(tags, i + 1, ch, Append(missing, tags[i].name))

\* chunk.rs:131-190
process_chunk(ch, subtags) == chunk_loop(subtags, 1, ch, <<>>)

(***************************************************************************)
(* Chunk roots given to process_chunk: up to MaxRootChildren children      *)
(* drawn from RootChildren, then the End tag that closes the compound.     *)
(***************************************************************************)
MaxRootChildren == 3

IntTag(name, v) == GTag(name, "Int", <<>>, [NoPayload EXCEPT !.int = v])
LongTag(name, long) == GTag(name, "Long", <<>>, [NoPayload EXCEPT !.long = long])
ByteTag(name, v) == GTag(name, "Byte", <<>>, [NoPayload EXCEPT !.byte = v])
ByteArrayTag(name, a) == GTag(name, "ByteArray", <<>>, [NoPayload EXCEPT !.byte_array = a])
CompoundTag(name, children) == GTag(name, "Compound", children \o <<EndTag>>, NoPayload)
ListTag(name, elements) == GTag(name, "List", elements, NoPayload)

\* sections lists: none, one section, one with light and an empty
\* block_states, one with a child process_sections has no arm for
SectionLists ==
    { <<>>,
      <<CompoundTag("", <<ByteTag("Y", -4)>>)>>,
      <<CompoundTag("", <<ByteTag("Y", 3), ByteArrayTag("BlockLight", <<18, 171>>),
                          CompoundTag("block_states", <<>>)>>)>>,
      <<CompoundTag("", <<ByteTag("Y", 0), UnknownTag>>)>> }

\* structures compounds: empty, one with starts and References, one with a
\* child process_structures has no arm for
StructureChildren ==
    { <<>>,
      <<CompoundTag("starts", <<CompoundTag("minecraft:mineshaft",
              <<StringTag("id", "INVALID"), IntTag("ChunkX", 1),
                ListTag("Children", <<CompoundTag("", <<StringTag("id", "x")>>)>>)>>)>>),
        CompoundTag("References", <<>>)>>,
      <<IntTag("extra", 1)>> }

RootChildren ==
    { IntTag("DataVersion", 3465), IntTag("DataVersion", 2860),
      IntTag("xPos", -2), IntTag("xPos", 5),
      StringTag("Status", "minecraft:full"), StringTag("Status", "minecraft:empty"),
      LongTag("LastUpdate", MixedPosLong), LongTag("LastUpdate", OnesLong),
      CompoundTag("Heightmaps", <<>>),
      IntTag("extra", 7) }
    \cup {ListTag("sections", l) : l \in SectionLists}
    \cup {CompoundTag("structures", c) : c \in StructureChildren}

Roots ==
    UNION {{[i \in 1 .. n + 1 |-> IF i <= n THEN f[i] ELSE EndTag] :
                f \in [1 .. n -> RootChildren]} : n \in 0 .. MaxRootChildren}

ProjectIdle ==
    /\ p_subtags = <<>>
    /\ p_chunk = NewChunk
    /\ p_missing = <<>>
    /\ p_status = "idle"

\* chunk.rs:66-88: the Chunk literal, and the NBT whose root was parsed
ProjectInit ==
    /\ p_subtags \in Roots
    /\ p_chunk = NewChunk
    /\ p_missing = <<>>
    /\ p_status = "ready"

\* chunk.rs:88, 131-190: chunk.process_chunk(nbt)
ProcessChunk ==
    /\ p_status = "ready"
    /\ LET r == process_chunk(p_chunk, p_subtags)
       IN  /\ p_status' = r.status
           /\ p_missing' = r.missing
           /\ p_chunk' = IF r.status = "ok" THEN r.value ELSE p_chunk
    /\ UNCHANGED p_subtags

(***************************************************************************)
(* world.rs:69-81 and region.rs:65-68: the path of a directory entry and   *)
(* the region coordinates Region::new takes from it.  A text is the        *)
(* sequence of its characters.  The numbers of the model's names have one  *)
(* or two digits, far from the ends of i32.                                *)
(***************************************************************************)
DigitChars == <<"0", "1", "2", "3", "4", "5", "6", "7", "8", "9">>
IsDigit(ch) == \E d \in 1 .. 10 : DigitChars[d] = ch
DigitValue(ch) == (CHOOSE d \in 1 .. 10 : DigitChars[d] = ch) - 1

\* str::split(pat): the pieces of str between the occurrences of pat, with
\* `piece` the characters since the last one
RECURSIVE split_from(_, _, _, _)
split_from(str, pat, piece, pieces) ==
    IF str = <<>> THEN Append(pieces, piece)
    ELSE IF Head(str) = pat THEN split_from(Tail(str), pat, <<>>, Append(pieces, piece))
    ELSE split_from(Tail(str), pat, Append(piece, Head(str)), pieces)

split(str, pat) == split_from(str, pat, <<>>, <<>>)

\* str::ends_with
ends_with(str, suffix) ==
    /\ Len(suffix) <= Len(str)
    /\ SubSeq(str, Len(str) - Len(suffix) + 1, Len(str)) = suffix

\* the value of a text of digits, the most significant first
RECURSIVE digits_value(_, _)
digits_value(digits, acc) ==
    IF digits = <<>> THEN acc
    ELSE digits_value(Tail(digits), acc * 10 + DigitValue(Head(digits)))

\* str::parse::<i32>(): an optional + or -, then one digit or more
parse_i32(str) ==
    LET signed == str # <<>> /\ Head(str) \in {"+", "-"}
        digits == IF signed THEN Tail(str) ELSE str
    IN  IF digits = <<>> \/ \E i \in 1 .. Len(digits) : ~IsDigit(digits[i])
        THEN [ok |-> FALSE, value |-> 0]
        ELSE [ok |-> TRUE,
              value |-> IF signed /\ Head(str) = "-" THEN 0 - digits_value(digits, 0)
                        ELSE digits_value(digits, 0)]

\* region.rs:66-68: region_x and region_z from the pieces of the whole path;
\* an index past the pieces and the unwrap of a failed parse panic
region_coordinates(region_path) ==
    LET filename_parts == split(region_path, ".")
    IN  IF Len(filename_parts) < 2 \/ ~parse_i32(filename_parts[2]).ok
        THEN [status |-> "panic", xz |-> <<0, 0>>]
        ELSE IF Len(filename_parts) < 3 \/ ~parse_i32(filename_parts[3]).ok
        THEN [status |-> "panic", xz |-> <<0, 0>>]
        ELSE [status |-> "ok",
              xz |-> <<parse_i32(filename_parts[2]).value, parse_i32(filename_parts[3]).value>>]

\* world.rs:47-48, 73: <world_path>/region/<file name>
RegionDirName == <<"/", "r", "e", "g", "i", "o", "n", "/">>
entry_path(world_path, file_name) == world_path \o RegionDirName \o file_name

Mca == <<".", "m", "c", "a">>
Mcr == <<".", "m", "c", "r">>

\* world.rs:74: the entries the walk hands to Region::new
is_region_file(file_path) == ends_with(file_path, Mca) \/ ends_with(file_path, Mcr)

\* the decimal text of a number of the model
DecimalText(n) ==
    LET a == IF n < 0 THEN 0 - n ELSE n
        digits == IF a >= 10 THEN <<DigitChars[(a \div 10) + 1], DigitChars[(a % 10) + 1]>>
                  ELSE <<DigitChars[a + 1]>>
    IN  IF n < 0 THEN <<"-">> \o digits ELSE digits

\* world paths: plain, relative, with a dot in a directory name, and with
\* numbers between the dots of one
WorldPaths ==
    { <<"/", "w">>,
      <<".", "/", "w">>,
      <<"/", "m", "y", ".", "w">>,
      <<"/", "v", ".", "1", ".", "2", ".", "w">> }

NameCoords == {-10, -1, 0, 2, 31}

\* r.<rx>.<rz>.mca and .mcr
RegionFileNames ==
    { <<"r", ".">> \o DecimalText(rx) \o <<".">> \o DecimalText(rz) \o ext :
         rx \in NameCoords, rz \in NameCoords, ext \in {Mca, Mcr} }

\* names that end in .mca with no coordinates, with letters for them and
\* with one only, and names the walk passes over
OtherFileNames ==
    { <<"f", "o", "o">> \o Mca,
      <<"r", ".", "a", ".", "b">> \o Mca,
      <<"r", ".", "1">> \o Mca,
      <<"l", "e", "v", "e", "l", ".", "d", "a", "t">>,
      <<"r", ".", "0", ".", "0">> \o Mca \o <<".", "b", "a", "k">> }

NameIdle ==
    /\ n_dir = <<>>
    /\ n_name = <<>>
    /\ n_xz = <<0, 0>>
    /\ n_status = "idle"

\* world.rs:53-57: one entry of the region directory
NameInit ==
    /\ n_dir \in WorldPaths
    /\ n_name \in RegionFileNames \cup OtherFileNames
    /\ n_xz = <<0, 0>>
    /\ n_status = "listed"

\* world.rs:74-77 and region.rs:65-77: a region file goes to Region::new
NameRegion ==
    /\ n_status = "listed"
    /\ is_region_file(entry_path(n_dir, n_name))
    /\ LET r == region_coordinates(entry_path(n_dir, n_name))
       IN  /\ n_status' = IF r.status = "ok" THEN "built" ELSE "panicked"
           /\ n_xz' = r.xz
    /\ UNCHANGED <<n_dir, n_name>>

\* world.rs:74: any other entry is passed over
SkipEntry ==
    /\ n_status = "listed"
    /\ ~is_region_file(entry_path(n_dir, n_name))
    /\ n_status' = "skipped"
    /\ UNCHANGED <<n_dir, n_name, n_xz>>

(***************************************************************************)
(* chunk.rs:546-561: calls of process_lights.  A BlockLight or SkyLight    *)
(* array of a section has LightBytes bytes; the arrays of the model are    *)
(* shorter, as long, and longer, filled after one of LightPatterns.        *)
(***************************************************************************)
LightBytes == LIGHT_CELLS \div 2

LightLengths ==
    {0, 1, 2, 3, 17, 300, LightBytes - 1, LightBytes, LightBytes + 1, 2 * LightBytes}

\* the i-th byte (from 0) of the array filled after pattern p
LightByte(p, i) ==
    CASE p = 0 -> 0
      [] p = 1 -> 18                 \* 0x12
      [] p = 2 -> 171                \* 0xAB
      [] p = 3 -> 255
      [] p = 4 -> i % 256
      [] p = 5 -> (i * 7) % 256
      [] p = 6 -> 255 - (i % 256)
      [] OTHER -> (i \div 16) % 256

LightPatterns == 0 .. 7

LightArrays ==
    { [i \in 1 .. n |-> LightByte(p, i - 1)] : n \in LightLengths, p \in LightPatterns }

LightIdle ==
    /\ l_bytes = <<>>
    /\ l_out = <<>>
    /\ l_status = "idle"

\* chunk.rs:217-222: the payload of a BlockLight or SkyLight child
LightInit ==
    /\ l_bytes \in LightArrays
    /\ l_out = <<>>
    /\ l_status = "ready"

\* chunk.rs:546-561: Chunk::process_lights(byte_array)
ProcessLights ==
    /\ l_status = "ready"
    /\ LET r == process_lights(l_bytes)
       IN  /\ l_status' = r.status
           /\ l_out' = r.value
    /\ UNCHANGED l_bytes

(***************************************************************************)
(* args.rs:13-31: ArgParse::load on the argument vector of the process.    *)
(***************************************************************************)
\* arguments after the program name
MaxArgs == 3

\* args.rs:21-25: the loop from index i on (from 0, as in the code), with
\* config_file the value so far; arguments[i + 1] past the end panics
RECURSIVE load_from(_, _, _)
load_from(arguments, i, config_file) ==
    IF i >= Len(arguments) THEN [status |-> "ok", config_file |-> config_file]
    ELSE IF arguments[i + 1] = "--config"
    THEN IF i + 1 >= Len(arguments)
         THEN [status |-> "panic", config_file |-> config_file]
         ELSE load_from(arguments, i + 1, arguments[i + 2])
    ELSE load_from(arguments, i + 1, config_file)

\* args.rs:14-30
load(arguments) == load_from(arguments, 0, "config.toml")

ArgWords == {"--config", "a.toml", "b.toml", "--verbose"}

ArgVectors ==
    UNION {{<<"rustymap">> \o rest : rest \in [1 .. n -> ArgWords]} : n \in 0 .. MaxArgs}

ArgsIdle ==
    /\ a_arguments = <<>>
    /\ a_config_file = ""
    /\ a_status = "idle"

\* args.rs:15: env::args().collect()
ArgsInit ==
    /\ a_arguments \in ArgVectors
    /\ a_config_file = ""
    /\ a_status = "ready"

\* args.rs:14-30: Args::load()
LoadArgs ==
    /\ a_status = "ready"
    /\ LET r == load(a_arguments)
       IN  /\ a_status' = r.status
           /\ a_config_file' = IF r.status = "ok" THEN r.config_file ELSE a_config_file
    /\ UNCHANGED a_arguments

(***************************************************************************)
(* config.rs:37-93: Config::new, for what it does with the textures table  *)
(* and the renders of a configuration file.  The jar, the directories and  *)
(* the worlds of the file are taken as valid.  A HashMap<String, String>   *)
(* is a function on the set of its keys.                                   *)
(***************************************************************************)
\* renders of a file
MaxRenders == 2

\* World::default_jar_path()
DefaultJarPath == "minecraft.jar"

\* config.rs:48: Default::default()
EmptyMap == [k \in {} |-> ""]

\* config.rs:391-411: the table's entries, and `default` when it has none
parse_textures(table) ==
    IF "default" \in DOMAIN table THEN table
    ELSE [k \in (DOMAIN table) \cup {"default"} |->
            IF k \in DOMAIN table THEN table[k] ELSE DefaultJarPath]

\* texture paths that exist as files
TextureFiles == {"pack.zip"}

\* config.rs:310-321: the textures of one render; indexing the map with a
\* key it does not hold panics
validate_textures(name, textures) ==
    IF name \in DOMAIN textures THEN [status |-> "ok", textures |-> textures[name]]
    ELSE IF name \in TextureFiles THEN [status |-> "ok", textures |-> name]
    ELSE IF "default" \in DOMAIN textures
    THEN [status |-> "ok", textures |-> textures["default"]]
    ELSE [status |-> "panic", textures |-> name]

\* config.rs:270-331: the loop over render_list from the i-th render on
RECURSIVE validate_renders_from(_, _, _, _)
validate_renders_from(render_list, i, textures, validated_list) ==
    IF i > Len(render_list) THEN [status |-> "ok", renders |-> validated_list]
    ELSE LET t == validate_textures(render_list[i].textures, textures)
         IN  IF t.status # "ok" THEN [status |-> "panic", renders |-> validated_list]
             ELSE validate_renders_from(render_list, i + 1, textures,
                      IF render_list[i].world_ok
                      THEN Append(validated_list,
                                  [render_list[i] EXCEPT !.textures = t.textures])
                      ELSE validated_list)

validate_renders(render_list, textures) ==
    validate_renders_from(render_list, 1, textures, <<>>)

\* textures tables of a file
TextureTables ==
    { EmptyMap,
      [k \in {"default"} |-> "classic.zip"],
      [k \in {"faithful"} |-> "faithful.zip"],
      [k \in {"default", "faithful"} |-> IF k = "default" THEN "classic.zip" ELSE "faithful.zip"] }

\* config.rs:432-453: a render, with the textures it names (`default` when
\* it names none) and whether its world and dimension are found
Renders == [textures : {"default", "faithful", "pack.zip", "nowhere.zip"}, world_ok : BOOLEAN]

ConfigFiles ==
    [ has_textures : BOOLEAN, textures : TextureTables,
      renders : UNION {[1 .. n -> Renders] : n \in 0 .. MaxRenders} ]

ConfigIdle ==
    /\ c_file = [has_textures |-> FALSE, textures |-> EmptyMap, renders |-> <<>>]
    /\ c_textures = EmptyMap
    /\ c_render_list = <<>>
    /\ c_renders = <<>>
    /\ c_status = "idle"

\* config.rs:41-59: the Config literal and the file read and parsed; a file
\* without the key has no table
ConfigInit ==
    /\ c_file \in {f \in ConfigFiles : ~f.has_textures => f.textures = EmptyMap}
    /\ c_textures = EmptyMap
    /\ c_render_list = <<>>
    /\ c_renders = <<>>
    /\ c_status = "ready"

\* config.rs:64-82: the loop over the keys of the file
ParseConfig ==
    /\ c_status = "ready"
    /\ c_textures' = IF c_file.has_textures THEN parse_textures(c_file.textures)
                     ELSE c_textures
    /\ c_render_list' = c_file.renders
    /\ c_status' = "parsed"
    /\ UNCHANGED <<c_file, c_renders>>

\* config.rs:93: config.renders = Config::validate_renders(render_list, &config)
ValidateRenders ==
    /\ c_status = "parsed"
    /\ LET r == validate_renders(c_render_list, c_textures)
       IN  /\ c_status' = IF r.status = "ok" THEN "validated" ELSE "panicked"
           /\ c_renders' = IF r.status = "ok" THEN r.renders ELSE c_renders
    /\ UNCHANGED <<c_file, c_textures, c_render_list>>

(***************************************************************************)
(* world.rs:172-205: newer_version and version_int, on the names that the  *)
(* pattern of default_jar_path (world.rs:137) lets through: digits, a dot, *)
(* digits, and an optional dot and one digit.                              *)
(***************************************************************************)
\* parse::<usize>().unwrap() on a text of digits
parse_usize(str) == digits_value(str, 0)

\* world.rs:183-205: A << 16, B << 8 and C added up
version_int(version_number) ==
    LET parts == split(version_number, ".")
    IN  CASE Len(parts) = 3 ->
               parse_usize(parts[1]) * (2 ^ 16) + parse_usize(parts[2]) * (2 ^ 8)
                   + parse_usize(parts[3])
          [] Len(parts) = 2 ->
               parse_usize(parts[1]) * (2 ^ 16) + parse_usize(parts[2]) * (2 ^ 8)
          [] OTHER -> 0

\* world.rs:173-181
newer_version(ver_1, ver_2) ==
    IF version_int(ver_1) < version_int(ver_2) THEN ver_2 ELSE ver_1

MajorTexts == {<<"0">>, <<"1">>, <<"2">>, <<"2", "0">>}
MinorTexts ==
    {<<"0">>, <<"1">>, <<"2", "0">>, <<"2", "5", "5">>, <<"2", "5", "6">>, <<"2", "5", "7">>}
PatchTexts == {<<"0">>, <<"9">>}

\* A.B and A.B.C
VersionNames ==
    {a \o <<".">> \o b : a \in MajorTexts, b \in MinorTexts}
    \cup {a \o <<".">> \o b \o <<".">> \o c : a \in MajorTexts, b \in MinorTexts, c \in PatchTexts}

VersionIdle ==
    /\ v_ver_1 = <<>>
    /\ v_ver_2 = <<>>
    /\ v_newer = <<>>
    /\ v_status = "idle"

\* world.rs:150-154: the newest so far and the name of an entry
VersionInit ==
    /\ v_ver_1 \in VersionNames
    /\ v_ver_2 \in VersionNames
    /\ v_newer = <<>>
    /\ v_status = "ready"

\* world.rs:152: World::newer_version(&newest, &filename)
NewerVersion ==
    /\ v_status = "ready"
    /\ v_newer' = newer_version(v_ver_1, v_ver_2)
    /\ v_status' = "returned"
    /\ UNCHANGED <<v_ver_1, v_ver_2>>

(***************************************************************************)
(* region.rs:83-138 and chunk.rs:65-91: the order of the steps of          *)
(* load_chunks and of Chunk::new.  A slot is told by what its buffer does  *)
(* to the stage that fails on it, if any.                                  *)
(***************************************************************************)
\* slots of the file of this layer
MaxPipelineSlots == 2

\* region.rs:85-88: the two tables of the header
HeaderBytes == 2 * SECTOR_BYTES

\* lengths of the file: none, inside each table, and the header and more
FileLengths == {0, 100, SECTOR_BYTES, HeaderBytes - 1, HeaderBytes, 2 * HeaderBytes}

\* what the buffer of a slot holds
\*   good:        a frame that decompresses, parses and projects
\*   zeros:       a buffer of zeros: length field 0, compression 0, and the
\*                End tag as the NBT root
\*   empty:       a buffer of no bytes (sector count 0): bytes[0..4] panics
\*   bad_stream:  a frame whose zlib or gzip stream does not inflate: exit
\*   bad_nbt:     a payload the parser panics on
\*   extra_field: a root with a child process_chunk has no arm for: exit
SlotKinds == {"good", "zeros", "empty", "bad_stream", "bad_nbt", "extra_field"}

\* a file shorter than its header has no chunk sectors: the read of a slot
\* fails and leaves the buffer vec![0u8; size] (region.rs:132-133)
SlotKindsOf(length) == IF length < HeaderBytes THEN {"zeros", "empty"} ELSE SlotKinds

RegionFilesOnDisk ==
    UNION { [length : {l}, slots : UNION {[1 .. n -> SlotKindsOf(l)] : n \in 0 .. MaxPipelineSlots}]
            : l \in FileLengths }

PipelineIdle ==
    /\ s_file = [length |-> 0, slots |-> <<>>]
    /\ s_header = "unread"
    /\ s_index = 0
    /\ s_stage = "none"
    /\ s_log = <<>>
    /\ s_pc = "idle"

\* region.rs:84: the file is open
PipelineInit ==
    /\ s_file \in RegionFilesOnDisk
    /\ s_header = "unread"
    /\ s_index = 0
    /\ s_stage = "none"
    /\ s_log = <<>>
    /\ s_pc = "open"

\* region.rs:85-111: the two read_exact calls, whose results are dropped,
\* and the descriptors built from the buffers
ReadHeader ==
    /\ s_pc = "open"
    /\ s_header' = IF s_file.length >= HeaderBytes THEN "full" ELSE "partial"
    /\ s_pc' = "loading"
    /\ UNCHANGED <<s_file, s_index, s_stage, s_log>>

\* region.rs:129-133: the buffer of the next slot is read
FrameSlot ==
    /\ s_pc = "loading"
    /\ s_stage \in {"none", "projected"}
    /\ s_index < Len(s_file.slots)
    /\ s_index' = s_index + 1
    /\ s_stage' = "framed"
    /\ s_log' = Append(s_log, <<s_index + 1, "framed">>)
    /\ UNCHANGED <<s_file, s_header, s_pc>>

\* chunk.rs:84: Chunk::decompress(bytes)
DecompressSlot ==
    /\ s_pc = "loading"
    /\ s_stage = "framed"
    /\ LET kind == s_file.slots[s_index]
       IN  CASE kind = "empty" ->
                   s_pc' = "panicked" /\ UNCHANGED <<s_stage, s_log>>
             [] kind = "bad_stream" ->
                   s_pc' = "exited" /\ UNCHANGED <<s_stage, s_log>>
             [] OTHER ->
                   /\ s_stage' = "decompressed"
                   /\ s_log' = Append(s_log, <<s_index, "decompressed">>)
                   /\ UNCHANGED s_pc
    /\ UNCHANGED <<s_file, s_header, s_index>>

\* chunk.rs:86: NBT::new(&raw_bytes)
ParseSlot ==
    /\ s_pc = "loading"
    /\ s_stage = "decompressed"
    /\ IF s_file.slots[s_index] = "bad_nbt"
       THEN s_pc' = "panicked" /\ UNCHANGED <<s_stage, s_log>>
       ELSE /\ s_stage' = "parsed"
            /\ s_log' = Append(s_log, <<s_index, "parsed">>)
            /\ UNCHANGED s_pc
    /\ UNCHANGED <<s_file, s_header, s_index>>

\* chunk.rs:88: chunk.process_chunk(nbt)
ProjectSlot ==
    /\ s_pc = "loading"
    /\ s_stage = "parsed"
    /\ IF s_file.slots[s_index] = "extra_field"
       THEN s_pc' = "exited" /\ UNCHANGED <<s_stage, s_log>>
       ELSE /\ s_stage' = "projected"
            /\ s_log' = Append(s_log, <<s_index, "projected">>)
            /\ UNCHANGED s_pc
    /\ UNCHANGED <<s_file, s_header, s_index>>

\* region.rs:138-140: the loop is over
FinishSlots ==
    /\ s_pc = "loading"
    /\ s_stage \in {"none", "projected"}
    /\ s_index = Len(s_file.slots)
    /\ s_pc' = "done"
    /\ UNCHANGED <<s_file, s_header, s_index, s_stage, s_log>>

(***************************************************************************)
(* Specifications                                                          *)
(***************************************************************************)
InitRegion == RegionInit /\ ChunkIdle /\ NbtIdle /\ GridIdle /\ CoordIdle /\ WorldIdle /\ ProjectIdle /\ NameIdle /\ LightIdle /\ ArgsIdle /\ ConfigIdle /\ VersionIdle /\ PipelineIdle
NextRegion ==
    \/ LoadHeaders /\ UNCHANGED exceptRegion
    \/ (\E r \in Slots : LoadChunk(r)) /\ UNCHANGED exceptRegion
    \/ FinishLoad /\ UNCHANGED exceptRegion
SpecRegion == InitRegion /\ [][NextRegion]_vars

InitChunk == ChunkInit /\ RegionIdle /\ NbtIdle /\ GridIdle /\ CoordIdle /\ WorldIdle /\ ProjectIdle /\ NameIdle /\ LightIdle /\ ArgsIdle /\ ConfigIdle /\ VersionIdle /\ PipelineIdle
NextChunk == Decompress /\ UNCHANGED exceptChunk
SpecChunk == InitChunk /\ [][NextChunk]_vars

InitNbt == NbtInit /\ RegionIdle /\ ChunkIdle /\ GridIdle /\ CoordIdle /\ WorldIdle /\ ProjectIdle /\ NameIdle /\ LightIdle /\ ArgsIdle /\ ConfigIdle /\ VersionIdle /\ PipelineIdle
NextNbt == ParseTag /\ UNCHANGED exceptNbt
SpecNbt == InitNbt /\ [][NextNbt]_vars

InitGrid == GridInit /\ RegionIdle /\ ChunkIdle /\ NbtIdle /\ CoordIdle /\ WorldIdle /\ ProjectIdle /\ NameIdle /\ LightIdle /\ ArgsIdle /\ ConfigIdle /\ VersionIdle /\ PipelineIdle
NextGrid ==
    \/ ProcessBlockData /\ UNCHANGED exceptGrid
    \/ ProcessBiomeData /\ UNCHANGED exceptGrid
    \/ ProcessBlockStates /\ UNCHANGED exceptGrid
    \/ ProcessBiomes /\ UNCHANGED exceptGrid
SpecGrid == InitGrid /\ [][NextGrid]_vars

InitCoord == CoordInit /\ RegionIdle /\ ChunkIdle /\ NbtIdle /\ GridIdle /\ WorldIdle /\ ProjectIdle /\ NameIdle /\ LightIdle /\ ArgsIdle /\ ConfigIdle /\ VersionIdle /\ PipelineIdle
NextCoord ==
    \/ BuildRegion /\ UNCHANGED exceptCoord
    \/ (\E r \in AllSlots : PlaceChunk(r)) /\ UNCHANGED exceptCoord
SpecCoord == InitCoord /\ [][NextCoord]_vars

InitWorld == WorldInit /\ RegionIdle /\ ChunkIdle /\ NbtIdle /\ GridIdle /\ CoordIdle /\ ProjectIdle /\ NameIdle /\ LightIdle /\ ArgsIdle /\ ConfigIdle /\ VersionIdle /\ PipelineIdle
NextWorld ==
    \/ ReadDir /\ UNCHANGED exceptWorld
    \/ LoadRegionFile /\ UNCHANGED exceptWorld
    \/ FinishWalk /\ UNCHANGED exceptWorld
SpecWorld == InitWorld /\ [][NextWorld]_vars

InitProject ==
    ProjectInit /\ RegionIdle /\ ChunkIdle /\ NbtIdle /\ GridIdle /\ CoordIdle /\ WorldIdle /\ NameIdle /\ LightIdle /\ ArgsIdle /\ ConfigIdle /\ VersionIdle /\ PipelineIdle
NextProject == ProcessChunk /\ UNCHANGED exceptProject
SpecProject == InitProject /\ [][NextProject]_vars

InitName ==
    NameInit /\ RegionIdle /\ ChunkIdle /\ NbtIdle /\ GridIdle /\ CoordIdle /\ WorldIdle /\ ProjectIdle /\ LightIdle /\ ArgsIdle /\ ConfigIdle /\ VersionIdle /\ PipelineIdle
NextName ==
    \/ NameRegion /\ UNCHANGED exceptName
    \/ SkipEntry /\ UNCHANGED exceptName
SpecName == InitName /\ [][NextName]_vars

InitLight ==
    LightInit /\ RegionIdle /\ ChunkIdle /\ NbtIdle /\ GridIdle /\ CoordIdle /\ WorldIdle /\ ProjectIdle /\ NameIdle /\ ArgsIdle /\ ConfigIdle /\ VersionIdle /\ PipelineIdle
NextLight == ProcessLights /\ UNCHANGED exceptLight
SpecLight == InitLight /\ [][NextLight]_vars

InitArgs ==
    ArgsInit /\ RegionIdle /\ ChunkIdle /\ NbtIdle /\ GridIdle /\ CoordIdle /\ WorldIdle /\ ProjectIdle /\ NameIdle /\ LightIdle /\ ConfigIdle /\ VersionIdle /\ PipelineIdle
NextArgs == LoadArgs /\ UNCHANGED exceptArgs
SpecArgs == InitArgs /\ [][NextArgs]_vars

InitConfig ==
    ConfigInit /\ RegionIdle /\ ChunkIdle /\ NbtIdle /\ GridIdle /\ CoordIdle /\ WorldIdle /\ ProjectIdle /\ NameIdle /\ LightIdle /\ ArgsIdle /\ VersionIdle /\ PipelineIdle
NextConfig ==
    \/ ParseConfig /\ UNCHANGED exceptConfig
    \/ ValidateRenders /\ UNCHANGED exceptConfig
SpecConfig == InitConfig /\ [][NextConfig]_vars

InitVersion ==
    VersionInit /\ RegionIdle /\ ChunkIdle /\ NbtIdle /\ GridIdle /\ CoordIdle /\ WorldIdle /\ ProjectIdle /\ NameIdle /\ LightIdle /\ ArgsIdle /\ ConfigIdle /\ PipelineIdle
NextVersion == NewerVersion /\ UNCHANGED exceptVersion
SpecVersion == InitVersion /\ [][NextVersion]_vars

InitPipeline ==
    PipelineInit /\ RegionIdle /\ ChunkIdle /\ NbtIdle /\ GridIdle /\ CoordIdle /\ WorldIdle /\ ProjectIdle /\ NameIdle /\ LightIdle /\ ArgsIdle /\ ConfigIdle /\ VersionIdle
NextPipeline ==
    \/ ReadHeader /\ UNCHANGED exceptPipeline
    \/ FrameSlot /\ UNCHANGED exceptPipeline
    \/ DecompressSlot /\ UNCHANGED exceptPipeline
    \/ ParseSlot /\ UNCHANGED exceptPipeline
    \/ ProjectSlot /\ UNCHANGED exceptPipeline
    \/ FinishSlots /\ UNCHANGED exceptPipeline
SpecPipeline == InitPipeline /\ [][NextPipeline]_vars

(***************************************************************************)
(* Properties                                                              *)
(***************************************************************************)
\* a slot is present when its sector offset and its sector count are non-zero
SectorOffsetOf(i) == u32_from_be_bytes(0, location[i][1], location[i][2], location[i][3])
SectorCountOf(i) == location[i][4]
PresentSlots == {i \in Slots : SectorOffsetOf(i) # 0 /\ SectorCountOf(i) # 0}
ProducedSlots == {chunks[k] : k \in 1 .. Len(chunks)}

\* C1: the slots handed to Chunk::new by load_chunks are present slots only
\* (offset and sector count both non-zero), and when load_chunks returns the
\* slots for which a Chunk was pushed are exactly the present slots.
C1_ChunksExactlyForPresentSlots ==
    rpc \in {"loading", "panicked", "exited", "done"} =>
        /\ visited \subseteq PresentSlots
        /\ rpc = "done" => ProducedSlots = PresentSlots

\* C2: a buffer that holds exactly one well-formed top-level tag parses
\* without error and leaves the cursor at the length of the buffer.
C2_WellFormedParsesToEnd ==
    (npc \in {"parsed", "panicked", "exited"} /\ well_formed) =>
        (npc = "parsed" /\ cur = Len(tag_bytes))

\* C3: the cursor never passes the end of the buffer, whatever the buffer.
C3_CursorWithinBuffer ==
    npc \in {"parsed", "panicked", "exited"} => cur <= Len(tag_bytes)

\* the names, types and nesting of a parsed Tag
RECURSIVE ShapeOfTag(_)
ShapeOfTag(t) ==
    [name |-> t.name, t |-> t.payload.t,
     kids |-> IF t.payload.t = "Compound"
              THEN [i \in 1 .. Len(t.payload.v) |-> ShapeOfTag(t.payload.v[i])]
              ELSE <<>>]

\* the names, types and nesting of the tree a buffer was serialized from; a
\* Compound ends with its End tag
RECURSIVE ShapeOfSrc(_)
ShapeOfSrc(t) ==
    [name |-> t.name, t |-> tag_from_id(t.id),
     kids |-> IF t.id = 10
              THEN [i \in 1 .. (Len(t.kids) + 1) |->
                        IF i <= Len(t.kids) THEN ShapeOfSrc(t.kids[i])
                        ELSE [name |-> <<>>, t |-> "End", kids |-> <<>>]]
              ELSE <<>>]

HasCompoundChild(t) == t.id = 10 /\ \E i \in 1 .. Len(t.kids) : t.kids[i].id = 10

\* C4: a Compound nested in a Compound is parsed as a child with its own name
\* and its own children; the tags after it stay children of the parent, and
\* the depth of the nesting is kept.
C4_NestedCompoundKeepsShape ==
    (npc \in {"parsed", "panicked", "exited"} /\ well_formed /\ HasCompoundChild(src)) =>
        (npc = "parsed" /\ ShapeOfTag(tag) = ShapeOfSrc(src))

\* bit p (0 = least significant) of a long carried as eight bytes
BitOfLong(long_int, p) == (long_int[8 - (p \div 8)] \div (2 ^ (p % 8))) % 2

\* (long_int >> shift) & ((1 << width) - 1)
RECURSIVE ShiftAndMask(_, _, _)
ShiftAndMask(long_int, shift, width) ==
    IF width = 0 THEN 0
    ELSE BitOfLong(long_int, shift) + 2 * ShiftAndMask(long_int, shift + 1, width - 1)

\* C5: for B in 4..12 and longs enough to fill the grid, process_block_data
\* returns 4096 entries, and entry j*floor(64/B)+k is
\* (long_j >> (k*B)) & ((1<<B)-1): low bits first, no entry spans two longs,
\* the top 64 mod B bits of a long are ignored.
C5_BlockEntriesLowBitsFirst ==
    (g_op = "block_data" /\ g_bits \in 4 .. 12
        /\ Len(g_longs) * (64 \div g_bits) >= BLOCK_CELLS) =>
        /\ g_status = "ok"
        /\ Len(g_data) = BLOCK_CELLS
        /\ \A idx \in 0 .. (BLOCK_CELLS - 1) :
              g_data[idx + 1] =
                 ShiftAndMask(g_longs[(idx \div (64 \div g_bits)) + 1],
                              (idx % (64 \div g_bits)) * g_bits, g_bits)

\* C5 witness: five bits per entry, a negative first long whose top four bits
\* are set and ignored, and the twelfth entry taken from bits 55..59
C5_Witness ==
    /\ g_op = "block_data"
    /\ g_status = "ok"
    /\ g_bits = 5
    /\ Len(g_longs) = 342
    /\ g_longs[1] = MixedNegLong
    /\ g_data[1] = 16
    /\ g_data[12] = 29
    /\ g_data[13] = 15

CellsOf(op) == IF op \in {"block_data", "block_states"} THEN BLOCK_CELLS ELSE BIOME_CELLS

\* C6: a grid unpacker given at least C entries (4096 block, 64 biome)
\* returns exactly C entries and does not fail on the entries beyond C.
C6_ExactlyCellCountEntries ==
    (g_op \in {"block_data", "biome_data"} /\ g_bits >= 1
        /\ Len(g_longs) * (64 \div g_bits) >= CellsOf(g_op)) =>
        (g_status = "ok" /\ Len(g_data) = CellsOf(g_op))

\* C7: with a palette of P >= 1 entries, every entry of a grid that was
\* decoded without error is in 0 .. P-1.
C7_EntriesWithinPalette ==
    (g_op \in {"block_states", "biomes"} /\ g_palette >= 1 /\ g_status = "ok") =>
        \A i \in 1 .. Len(g_data) : g_data[i] >= 0 /\ g_data[i] < g_palette

HasData(tags) == \E i \in 1 .. Len(tags) : tags[i].name = "data"

\* the children of the compound are palette and End, and a block palette
\* entry holds Name, Properties and End only
KnownFieldsOnly(op, tags) ==
    /\ MissingFields(tags) = <<>>
    /\ op = "block_states" =>
          \A e \in 1 .. Len(PaletteSubtags(tags)) :
              process_block_state(PaletteSubtags(tags)[e]).missing = <<>>

FrameLength == u32_from_be_bytes(frame[1], frame[2], frame[3], frame[4])

\* the frame holds its length field, its compression byte and the
\* length - 1 payload bytes the length field announces
FrameHoldsPayload ==
    /\ cpc \in {"decompressed", "panicked", "exited"}
    /\ Len(frame) >= 5
    /\ FrameLength >= 1
    /\ Len(frame) >= 4 + FrameLength

\* C9: for a compressed frame of length >= 1, the decoder is handed exactly
\* the length - 1 bytes at [5, 4 + length): no padding byte after them, and
\* no read past the end of the buffer.
C9_DecoderGetsPayloadOnly ==
    (FrameHoldsPayload /\ frame[5] \in {1, 2}) =>
        (cpc # "panicked" /\ decoder_input = Slice(frame, 5, 4 + FrameLength))

\* C10: for compression byte 3, decompress returns exactly the length - 1
\* payload bytes.
C10_UncompressedIsPayload ==
    (FrameHoldsPayload /\ frame[5] = 3) =>
        (cpc = "decompressed" /\ decompressed = Slice(frame, 5, 4 + FrameLength))

\* C11: a frame whose compression byte is not 1, 2 or 3 ends decompress in an
\* error, and no bytes are returned for the NBT parser.
C11_UnknownCompressionFails ==
    (cpc \in {"decompressed", "panicked", "exited"} /\ Len(frame) >= 5
        /\ frame[5] \notin {1, 2, 3}) =>
        (cpc # "decompressed" /\ decompressed = NoBytes)

\* C12: every slot gets a descriptor with sectors = location[4i+3],
\* updated = u32_be(timestamp[4i..4i+4]) and a byte offset of exactly
\* 4096 * u24_be(location[4i..4i+3]), whatever the header bytes are.
C12_DescriptorExact ==
    rpc \in {"loading", "panicked", "exited", "done"} =>
        \A i \in Slots :
            /\ i \in DOMAIN region_headers
            /\ region_headers[i].sectors = SectorCountOf(i)
            /\ region_headers[i].updated =
                  u32_from_be_bytes(timestamps[i][1], timestamps[i][2],
                                    timestamps[i][3], timestamps[i][4])
            /\ region_headers[i].offset_sectors = SectorOffsetOf(i)

\* C13: the chunks of a region are produced in ascending slot order: of any
\* two chunks in region.chunks, the one with the smaller slot index is first.
C13_ChunksInSlotOrder ==
    rpc \in {"loading", "panicked", "exited", "done"} =>
        \A a \in 1 .. Len(chunks) : \A b \in 1 .. Len(chunks) :
            a < b => chunks[a] < chunks[b]

\* C14: for region (rx, rz), negative coordinates included, and slot
\* i = cz*32 + cx with cx and cz in 0..31, the chunk's block coordinates are
\* x = rx*512 + cx*16 and z = rz*512 + cz*16.
C14_ChunkBlockCoordinates ==
    kpc = "placed" =>
        \E cx \in 0 .. 31 : \E cz \in 0 .. 31 :
            /\ slot = cz * 32 + cx
            /\ chunk_xz = <<region_x * 512 + cx * 16, region_z * 512 + cz * 16>>

\* C14 witness: slot 341 (cx = 21, cz = 10) of region (-1, -2)
C14_Witness ==
    /\ kpc = "placed"
    /\ region_x = -1
    /\ region_z = -2
    /\ slot = 341
    /\ chunk_xz = <<-176, -864>>

\* C15: a chunk of a present slot that fails (bad framing, failed
\* decompression) does not abort the region and does not end the process.
C15_ChunkFailureIsolated ==
    (rpc \in {"loading", "panicked", "exited", "done"}
        /\ visited # {} /\ visited \subseteq PresentSlots) =>
        rpc \notin {"panicked", "exited"}

\* the entries of the directory that are whole region files
GoodRegionFiles ==
    {i \in 1 .. Len(region_files) :
        region_files[i].region_name /\ region_files[i].file = "good"}
LoadedRegionFiles == {regions[k] : k \in 1 .. Len(regions)}

\* C16: a region file that cannot be opened, or that is shorter than its
\* header, is an error of that region only: the walk does not end there, no
\* Region is built from it, and every other region file is loaded.
C16_RegionFailureIsolated ==
    wpc \in {"walking", "done", "panicked", "exited"} =>
        /\ wpc # "panicked"
        /\ LoadedRegionFiles \subseteq GoodRegionFiles
        /\ (wpc = "done" /\ region_dir = "listed") => LoadedRegionFiles = GoodRegionFiles

\* the present slots whose sectors reach past the MaxFileSectors sectors of
\* the file
OutOfRangeSlots ==
    {i \in PresentSlots : SectorOffsetOf(i) + SectorCountOf(i) > MaxFileSectors}

\* C17: a present slot whose byte range passes the end of the file is skipped:
\* its buffer is not handed to Chunk::new and no Chunk is pushed for it.
C17_OutOfRangeSlotSkipped ==
    rpc \in {"loading", "panicked", "exited", "done"} =>
        (visited \cup ProducedSlots) \cap OutOfRangeSlots = {}


\* the places of the root's children that process_chunk has no arm for
UnknownRootChildren ==
    {i \in 1 .. Len(p_subtags) :
        p_subtags[i].name \notin
            (AssignedFields \cup IgnoredFields \cup {"sections", "structures"})}

\* every sections and structures child of the root projects without failing
NestedChildrenProject ==
    \A i \in 1 .. Len(p_subtags) :
        /\ p_subtags[i].name = "sections"
              => process_sections(p_subtags[i].subtags).status = "ok"
        /\ p_subtags[i].name = "structures"
              => process_structures(p_subtags[i].subtags).status = "ok"

\* C18: a chunk root with a top-level child of an unknown name still
\* projects: process_chunk records the name and returns the Chunk, it does
\* not end the process.
C18_UnknownChildTolerated ==
    (p_status \notin {"idle", "ready"} /\ UnknownRootChildren # {}
        /\ NestedChildrenProject)
    => /\ p_status = "ok"
       /\ \A i \in UnknownRootChildren :
             \E m \in 1 .. Len(p_missing) : p_missing[m] = p_subtags[i].name

\* the places of the root's children that carry the name
ChildrenNamed(name) == {i \in 1 .. Len(p_subtags) : p_subtags[i].name = name}
\* the earliest of them
FirstNamed(name) ==
    p_subtags[CHOOSE i \in ChildrenNamed(name) : \A j \in ChildrenNamed(name) : i <= j]

\* C19: when the root holds several children of one name, the projected
\* field is the payload of the first of them.
C19_FirstOccurrenceWins ==
    p_status = "ok" =>
        /\ ChildrenNamed("DataVersion") # {}
              => p_chunk.data_version = payload_int(FirstNamed("DataVersion"))
        /\ ChildrenNamed("xPos") # {}
              => p_chunk.x_pos = payload_int(FirstNamed("xPos"))
        /\ ChildrenNamed("Status") # {}
              => p_chunk.status = payload_string(FirstNamed("Status"))
        /\ ChildrenNamed("LastUpdate") # {}
              => p_chunk.last_update = payload_long(FirstNamed("LastUpdate"))


\* C20: a ByteArray, IntArray, LongArray or List that declares a negative
\* length never parses: the parse ends in an error, with no empty list and
\* no array read under the length taken as unsigned.
C20_NegativeLengthFails ==
    (npc \in {"parsed", "panicked", "exited"} /\ src \in NegativeTrees) => npc # "parsed"


\* C21: a buffer with a tag type id of 13 or more (the root's, a Compound
\* child's, or the element type of a List that has elements) fails that
\* parse only: the process goes on, and no tag with an Invalid payload
\* comes out of it.
C21_InvalidTypeFailsChunkOnly ==
    (npc \in {"parsed", "panicked", "exited"} /\ src \in InvalidTypeTrees) =>
        /\ npc \notin {"panicked", "exited"}
        /\ npc = "parsed" => tag.payload.t # "Invalid"


\* the declared length N of an array tag of the source tree
DeclaredLength(t) == i32_from_be_bytes(t.raw[1], t.raw[2], t.raw[3], t.raw[4])
\* its N elements: signed 32-bit big-endian values of four bytes each
BigEndianInts(t) ==
    [k \in 1 .. DeclaredLength(t) |->
        i32_from_be_bytes(t.raw[4 * k + 1], t.raw[4 * k + 2], t.raw[4 * k + 3], t.raw[4 * k + 4])]
\* its N elements: 64-bit values of eight bytes each, most significant first
BigEndianLongs(t) ==
    [k \in 1 .. DeclaredLength(t) |-> SubSeq(t.raw, 8 * k - 3, 8 * k + 4)]

\* C22: an IntArray of declared length N decodes to its N big-endian signed
\* 32-bit values, a LongArray to its N big-endian signed 64-bit values.
C22_ArraysDecodeBigEndian ==
    (npc \in {"parsed", "panicked", "exited"} /\ well_formed /\ src.id \in {11, 12}) =>
        /\ npc = "parsed"
        /\ tag.payload.v = IF src.id = 11 THEN BigEndianInts(src) ELSE BigEndianLongs(src)

\* the pieces of the file name between its dots
NamePieces == split(n_name, ".")
\* the file name is r.<rx>.<rz>.mca or r.<rx>.<rz>.mcr with rx, rz integers
NameMatchesPattern ==
    /\ Len(NamePieces) = 4
    /\ NamePieces[1] = <<"r">>
    /\ parse_i32(NamePieces[2]).ok /\ parse_i32(NamePieces[3]).ok
    /\ NamePieces[4] \in {<<"m", "c", "a">>, <<"m", "c", "r">>}

\* C23: an accepted entry named r.<rx>.<rz>.mca|mcr gives the region
\* coordinates rx and rz whatever the directories above it are called; an
\* entry that ends in .mca or .mcr without that form is passed over and
\* does not end the walk.
C23_CoordinatesFromFileName ==
    (n_status \in {"skipped", "built", "panicked"} /\ (ends_with(n_name, Mca) \/ ends_with(n_name, Mcr)))
    => IF NameMatchesPattern
       THEN /\ n_status = "built"
            /\ n_xz = <<parse_i32(NamePieces[2]).value, parse_i32(NamePieces[3]).value>>
       ELSE n_status = "skipped"

\* the long array of the data child of a compound
DataLongs(tags) ==
    payload_long_array(tags[CHOOSE i \in 1 .. Len(tags) : tags[i].name = "data"])

\* the grid decoded from the data child with the width max(4, ceil(log2(P)))
\* for blocks and max(1, ceil(log2(P))) for biomes
DecodedAtSpecWidth(op, palette_len, tags) ==
    IF op = "block_states"
    THEN process_block_data(Max(4, CeilLog2(palette_len)), DataLongs(tags))
    ELSE process_biome_data(Max(1, CeilLog2(palette_len)), DataLongs(tags))

\* C24: a section's data is decoded with max(4, ceil(log2(P))) bits per
\* entry for a block palette of P >= 1 entries and max(1, ceil(log2(P)))
\* for a biome palette; the width is never 0, so a one-entry biome palette
\* with a data child decodes without dividing by zero.
C24_BitsPerEntryAtLeastOne ==
    (g_op \in {"block_states", "biomes"} /\ g_palette >= 1 /\ HasData(g_tags)
        /\ KnownFieldsOnly(g_op, g_tags)) =>
        LET r == DecodedAtSpecWidth(g_op, g_palette, g_tags)
        IN  /\ g_status = r.status
            /\ r.status = "ok" =>
                  \A c \in 1 .. CellsOf(g_op) :
                      g_data[c] = IF g_op = "biomes" THEN as_u8(r.data[c]) ELSE r.data[c]

\* C25: for an array of 2048 bytes, byte i gives out[2i] = its low nibble
\* and out[2i+1] = its high nibble.
C25_LowNibbleFirst ==
    (l_status = "ok" /\ Len(l_bytes) = LightBytes) =>
        \A i \in 0 .. (LightBytes - 1) :
            /\ l_out[2 * i + 1] = l_bytes[i + 1] % 16
            /\ l_out[2 * i + 2] = (l_bytes[i + 1] \div 16) % 16

\* C27: for an array of any length process_lights returns, never writing
\* past its 4096 entries, and the entries no byte covers stay 0.
C27_LightsWithinOutput ==
    l_status \in {"ok", "panic"} =>
        /\ l_status = "ok"
        /\ Len(l_out) = LIGHT_CELLS
        /\ \A c \in 1 .. LIGHT_CELLS : c > 2 * Len(l_bytes) => l_out[c] = 0

\* the places of `--config` in the argument vector
ConfigFlags == {i \in 1 .. Len(a_arguments) : a_arguments[i] = "--config"}
\* the last of them
LastConfigFlag == CHOOSE i \in ConfigFlags : \A j \in ConfigFlags : j <= i

\* C28: for every argument vector load returns, with config_file the
\* argument after the last `--config`, or config.toml when there is none;
\* also when `--config` is the final argument.
C28_ConfigFileFromArguments ==
    a_status \in {"ok", "panic"} =>
        /\ a_status = "ok"
        /\ ConfigFlags = {} => a_config_file = "config.toml"
        /\ (ConfigFlags # {} /\ LastConfigFlag < Len(a_arguments)) =>
              a_config_file = a_arguments[LastConfigFlag + 1]

\* the renders whose textures are neither a key of the map nor a file
FallbackRenders ==
    {i \in 1 .. Len(c_render_list) :
        /\ c_render_list[i].textures \notin DOMAIN c_textures
        /\ c_render_list[i].textures \notin TextureFiles}

\* C29: when validate_renders falls back to the default textures, the map
\* holds the key `default`, whether or not the file had a textures table,
\* and the lookup does not fail.
C29_DefaultTexturesPresent ==
    (c_status \in {"validated", "panicked"} /\ FallbackRenders # {}) =>
        /\ "default" \in DOMAIN c_textures
        /\ c_status = "validated"

\* the components (A, B, C) of a version name, a missing C read as 0
ComponentsOf(version) ==
    LET parts == split(version, ".")
    IN  << digits_value(parts[1], 0), digits_value(parts[2], 0),
           IF Len(parts) >= 3 THEN digits_value(parts[3], 0) ELSE 0 >>

\* t is greater than s in lexicographic order
LexGreater(t, s) ==
    \/ t[1] > s[1]
    \/ t[1] = s[1] /\ t[2] > s[2]
    \/ t[1] = s[1] /\ t[2] = s[2] /\ t[3] > s[3]

\* C30: newer_version(v1, v2) is v2 exactly when (A2, B2, C2) is greater
\* than (A1, B1, C1) in lexicographic order, and v1 otherwise, for all
\* component values.
C30_NewerIsLexicographic ==
    v_status = "returned" =>
        v_newer = IF LexGreater(ComponentsOf(v_ver_2), ComponentsOf(v_ver_1))
                  THEN v_ver_2 ELSE v_ver_1

StageOrder == <<"framed", "decompressed", "parsed", "projected">>

\* the stages slot i entered, in the order it entered them
StagesOf(i) ==
    LET entries == SelectSeq(s_log, LAMBDA e : e[1] = i)
    IN  [k \in 1 .. Len(entries) |-> entries[k][2]]

\* the stages of every slot are the first of StageOrder, in its order
StagesInOrder ==
    \A i \in 1 .. Len(s_file.slots) :
        /\ Len(StagesOf(i)) <= Len(StageOrder)
        /\ StagesOf(i) = SubSeq(StageOrder, 1, Len(StagesOf(i)))

\* C26: a chunk enters its stages in the order framed, decompressed,
\* parsed, projected, none skipped or repeated, and none before the 8 KiB
\* header of the region has been read in full.
C26_StagesInOrderAfterHeader ==
    /\ StagesInOrder
    /\ s_log # <<>> => s_header = "full"

=============================================================================
